---- MODULE Spec2Model ----
(***************************************************************************)
(* Model of the swap-latency tools of scripts/debian-install:              *)
(*   mem_read_bench.c, mem_write_bench.c, mem_mixed_bench.c,               *)
(*   mem_pressure.c, mem_locker.c                                          *)
(*                                                                         *)
(* The specifications share the variables below.                           *)
(*   SpecStats : the statistics pipeline alone (calculate_statistics,      *)
(*               get_percentile, print_results_json) applied to arbitrary  *)
(*               sample buffers.                                           *)
(*   Spec      : the main() of each tool as a program-counter machine,     *)
(*               interleaved with the asynchronous signal handler.         *)
(*   SpecClock : timespec_diff_ns on arbitrary pairs of timestamps.        *)
(*   SpecFill  : fill_pattern and fill_page on arbitrary ranges, and the   *)
(*               chunked fill loop of mem_pressure with its memory.        *)
(*   SpecOrder : the access order mem_read_bench builds, for page counts   *)
(*               beyond those Spec walks through.                          *)
(*   SpecArgs  : the argument parsing at the head of each main().          *)
(*   SpecProbe : the probe loops of mem_read_bench and mem_mixed_bench     *)
(*               with the bytes of the region.                             *)
(*   SpecLive  : Spec under a scheduler that keeps running main() and a    *)
(*               wall clock on which time passes.                          *)
(*   SpecLocker: mem_locker.c, its main(), cleanup() and signal handler.   *)
(*   SpecRand  : the byte stream of fast_rand from several states.         *)
(*   SpecDraw  : the draws of mem_mixed_bench's probe loop at the page     *)
(*               counts main() computes (256 per megabyte).                *)
(*                                                                         *)
(* Scaling.  The tools size everything from <size_mb>; one megabyte is 256 *)
(* pages.  The loops of main() are uniform in num_pages, so the model      *)
(* draws num_pages from 1..MaxPages instead of 256*size_mb.  Durations are *)
(* nanosecond counts drawn from 0..MaxLat.  mem_pressure counts its region *)
(* in ACCESS_STEP units of 65536 bytes, ChunkUnits of them to a chunk.     *)
(* The generators are given byte counts, so rand_state is the one the      *)
(* tools have after filling that many pages.                               *)
(***************************************************************************)
EXTENDS Integers, Sequences, FiniteSets, TLC

VARIABLES
    tool,           \* which program runs: "read", "write", "mixed", "pressure", or "stats" (SpecStats)
    pc,             \* position of the main control flow
    interrupted,    \* static volatile int interrupted
    num_pages,      \* total_size / PAGE_SIZE (pressure: total_size in ACCESS_STEP units)
    access_pattern, \* mem_read_bench argv[2]
    read_pct,       \* mem_mixed_bench argv[2]
    hold_seconds,   \* mem_pressure argv[3]
    i,              \* loop counter of the loop main() is in
    pass,           \* mem_pressure: pass counter of the swap-forcing loop
    elapsed,        \* mem_pressure: difftime(time(NULL), hold_start) as the test of the hold
                    \*   loop last read it (0 from hold_start = time(NULL) on); the benchmarks:
                    \*   whole seconds slept in the sleep after bulk eviction; mem_locker:
                    \*   calls of sleep(1) the wait loop has made that ran to their end
    rand_state,     \* static unsigned long rand_state
    access_order,   \* mem_read_bench: the access_order array (first num_pages entries)
    stats,          \* kind -> latency_stats_t ("read": stats / read_stats, "write": stats / write_stats)
    res,            \* resource -> [acquired, released]: how often it was obtained / given back
    out,            \* [docs: documents written to stdout, nodata: the stderr no-data message was written]
    exit_code,      \* -1 while running, else the value main() returned
    fed,            \* history: kind -> samples in arrival order, as stored before any sort
    probe,          \* history: the probes issued [n: how many, pages: the page index of
                    \*   each in order, and of the last one op, refused, recorded]
    rep,            \* history: what Reporting did [ran, mapped, reads, divs, after]
    hist,           \* history: [sig_at: pc when the flag was set, sig_n: probes issued by then,
                    \*   signo: the last signal delivered, seen_in: phase in which main() first read it as set, cut: first
                    \*   phase ended early because of it, fatal: main() returned 1 for an allocation
                    \*   that failed (mem_pressure: the half-size retry failed too),
                    \*   hints: pages the bulk eviction loop has called madvise for]
    requested,      \* history: the total_size main() computed from <size_mb>
    argv,           \* SpecArgs: the command line after argv[0], each argument a sequence of characters
    size_mb,        \* SpecArgs: size_t size_mb, a uint64_t
    memory,         \* SpecFill: the bytes of the range being filled (memory[p + 1] is byte p)
    pattern_type,   \* mem_pressure argv[2] / mem_write_bench argv[2]
    total_size,     \* SpecFill: length of the range in bytes; SpecArgs: MB_TO_BYTES(size_mb)
    subpatterns,    \* SpecFill: history: the sub-chunks the last Mixed fill wrote, in
                    \*   order, each [at: first byte, len: bytes, subpattern: 0 .. 3]
    start,          \* SpecClock: struct timespec start
    end,            \* SpecClock: struct timespec end
    latency,        \* SpecClock: the uint64_t timespec_diff_ns returned
    keep_running,   \* SpecLocker: static volatile int keep_running
    locked_memory,  \* SpecLocker: static void *locked_memory, NULL or the buffer malloc returned
    calls           \* SpecLocker: history: [malloc, mlock, munlock, free: how often each was
                    \*   called on the buffer, locked: mlock returned 0, cleanup: for each
                    \*   invocation of cleanup() in order, whether it released the buffer]

vars == <<tool, pc, interrupted, num_pages, access_pattern, read_pct, hold_seconds, i, pass,
          elapsed, rand_state, access_order, stats, res, out, exit_code, fed, probe, rep,
          hist, requested, argv, size_mb, memory, pattern_type, total_size, subpatterns, start, end,
          latency, keep_running, locked_memory, calls>>

\* the variables of mem_locker
locker_vars == <<keep_running, locked_memory, calls>>

\* the variables only the specifications of single functions (SpecArgs,
\* SpecFill, SpecClock) and of mem_locker (SpecLocker) change
unit_vars == <<argv, size_mb, memory, pattern_type, total_size, subpatterns, start, end,
               latency, locker_vars>>

----------------------------------------------------------------------------
(* Bounds of the model *)

\* largest page count a run is started with
MaxPages == 3
\* largest duration (ns) a probe can take
MaxLat == 2
\* longest sample buffer SpecStats feeds to the statistics pipeline
MaxSamples == 4
\* largest hold_seconds argument of mem_pressure
MaxHold == 2
\* time(NULL) is followed up to MaxClockOver seconds past the longest hold
MaxClockOver == 1
\* and down to MaxClockBack seconds before hold_start (a wall clock set back)
MaxClockBack == 1
\* a stride run is started with up to MaxStrides whole strides and one page
MaxStrides == 2

(* Program constants *)

\* (uint64_t)-1, the initial min_ns of mem_write_bench / mem_mixed_bench
UINT64_MAX == -1

Kinds == {"read", "write"}

Min(a, b) == IF a < b THEN a ELSE b

----------------------------------------------------------------------------
(* latency_stats_t and the statistics pipeline *)

\* a latency_stats_t whose buffer holds `capacity` elements; latencies is the
\* written prefix latencies[0 .. count-1] (1-based here)
EmptyStats(capacity) ==
    [latencies |-> <<>>, count |-> 0, capacity |-> capacity,
     min_ns |-> UINT64_MAX, max_ns |-> 0, total_ns |-> 0]

\* insertion of x into the ascending sequence s
RECURSIVE InsertSorted(_, _)
InsertSorted(x, s) ==
    IF s = <<>> THEN <<x>>
    ELSE IF x <= Head(s) THEN <<x>> \o s
    ELSE <<Head(s)>> \o InsertSorted(x, Tail(s))

\* qsort(latencies, count, sizeof(uint64_t), compare_uint64): ascending order
RECURSIVE qsort(_)
qsort(s) == IF s = <<>> THEN <<>> ELSE InsertSorted(Head(s), qsort(Tail(s)))

\* the accumulation loop total_ns += latencies[i]
RECURSIVE SumSeq(_)
SumSeq(s) == IF s = <<>> THEN 0 ELSE Head(s) + SumSeq(Tail(s))

\* a plausible bug: min/max/total taken without sorting the buffer first
calculate_statistics_nosort(s) ==
    IF s.count = 0 THEN s
    ELSE [s EXCEPT !.min_ns = s.latencies[1],
                   !.max_ns = s.latencies[s.count],
                   !.total_ns = SumSeq(s.latencies)]

calculate_statistics(s) ==
    IF s.count = 0 THEN s
    ELSE LET sorted == qsort(s.latencies)
         IN [s EXCEPT !.latencies = sorted,
                      !.min_ns = sorted[1],
                      !.max_ns = sorted[s.count],
                      !.total_ns = SumSeq(sorted)]

\* a plausible bug: the rank rounded up (ceil(p/100 * count)) instead of truncated
get_percentile_ceil(s, percentile) ==
    IF s.count = 0 THEN 0
    ELSE LET index == (percentile * s.count + 99) \div 100
             clamped == IF index >= s.count THEN s.count - 1 ELSE index
         IN s.latencies[clamped + 1]

\* index = (size_t)((percentile / 100.0) * count), clamped to count - 1:
\* the 0-based buffer index get_percentile reads.  For the percentiles the
\* tools ask for (50.0, 95.0, 99.0) the double product truncates to
\* floor(percentile * count / 100) for every count (compared exhaustively for
\* count up to 5*10^7), so the index is computed in integers here.
get_percentile_index(s, percentile) ==
    LET index == (percentile * s.count) \div 100
    IN IF index >= s.count THEN s.count - 1 ELSE index

get_percentile(s, percentile) ==
    IF s.count = 0 THEN 0
    ELSE s.latencies[get_percentile_index(s, percentile) + 1]

\* the statistics block print_results_json prints for one latency_stats_t.
\* Fields are the nanosecond values the format strings are applied to
\* ("%.2f" of x / 1000.0 is monotone in x).
StatsBlock(s) ==
    [count |-> s.count,
     min   |-> s.min_ns,
     max   |-> s.max_ns,
     avg   |-> s.total_ns \div s.count,
     p50   |-> get_percentile(s, 50),
     p95   |-> get_percentile(s, 95),
     p99   |-> get_percentile(s, 99)]

\* buffer indices (0-based) calculate_statistics reads: every element of
\* latencies[0 .. count-1] when count > 0, none when it returns early
calculate_statistics_reads(s) == IF s.count = 0 THEN {} ELSE 0 .. (s.count - 1)

\* what printing one statistics block does besides the text: the buffer
\* indices read through get_percentile and the divisors it divides by
\* (total_ns / count, and count / (total_ns / 1e9))
BlockReads(s) ==
    IF s.count = 0 THEN {} ELSE {get_percentile_index(s, p) : p \in {50, 95, 99}}
BlockDivs == {"count", "total_ns"}

\* a plausible bug: the count == 0 guard missing, so the block is computed
\* (and the divisions performed) for an empty buffer as well
print_results_json_noguard(s) ==
    [docs |-> << [test |-> "single", count |-> s.count,
                  block |-> IF s.count = 0 THEN <<>> ELSE <<StatsBlock(s)>>] >>,
     nodata |-> FALSE, reads |-> BlockReads(s), divs |-> BlockDivs]

\* print_results_json of mem_read_bench / mem_write_bench: the stderr message
\* and nothing on stdout for an empty buffer, else one document
print_results_json(s) ==
    IF s.count = 0
    THEN [docs |-> <<>>, nodata |-> TRUE, reads |-> {}, divs |-> {}]
    ELSE [docs |-> << [test |-> "single", count |-> s.count,
                       block |-> <<StatsBlock(s)>>] >>,
          nodata |-> FALSE, reads |-> BlockReads(s), divs |-> BlockDivs]

\* print_results_json of mem_mixed_bench: always one document; a statistics
\* block per kind with count > 0
print_results_json_mixed(r, w) ==
    [docs |-> << [test |-> "mixed",
                  total_operations |-> r.count + w.count,
                  read_stats  |-> IF r.count > 0 THEN <<StatsBlock(r)>> ELSE <<>>,
                  write_stats |-> IF w.count > 0 THEN <<StatsBlock(w)>> ELSE <<>>] >>,
     nodata |-> FALSE,
     reads |-> [k \in Kinds |-> IF k = "read" THEN BlockReads(r) ELSE BlockReads(w)],
     divs  |-> [k \in Kinds |-> IF (IF k = "read" THEN r ELSE w).count > 0
                                THEN BlockDivs ELSE {}]]

----------------------------------------------------------------------------
(* uint64_t arithmetic and timespec_diff_ns.  A uint64_t is the sequence of   *)
(* its 8 bytes, least significant first, so that sums, products and           *)
(* differences wrap at 2^64 exactly as the C operators do.                    *)

U64Bytes == 8

\* the uint64_t of a non-negative int
U64(n) == [k \in 1 .. U64Bytes |-> IF k <= 4 THEN (n \div (256 ^ (k - 1))) % 256 ELSE 0]

\* the integer a uint64_t below 2^31 stands for
U64Value(u) == u[1] + 256 * u[2] + 65536 * u[3] + 16777216 * u[4]

\* a + b, byte k onwards, with the carry into byte k
RECURSIVE U64AddFrom(_, _, _, _)
U64AddFrom(a, b, k, carry) ==
    IF k > U64Bytes THEN <<>>
    ELSE LET s == a[k] + b[k] + carry
         IN <<s % 256>> \o U64AddFrom(a, b, k + 1, s \div 256)

\* a + b of two uint64_t
U64Add(a, b) == U64AddFrom(a, b, 1, 0)

\* a - b, byte k onwards, with the borrow out of byte k - 1
RECURSIVE U64SubFrom(_, _, _, _)
U64SubFrom(a, b, k, borrow) ==
    IF k > U64Bytes THEN <<>>
    ELSE LET d == a[k] - b[k] - borrow
         IN IF d < 0 THEN <<d + 256>> \o U64SubFrom(a, b, k + 1, 1)
                     ELSE <<d>> \o U64SubFrom(a, b, k + 1, 0)

\* a - b of two uint64_t
U64Sub(a, b) == U64SubFrom(a, b, 1, 0)

\* the byte products that land in byte k of a * b: a[j] * b[k + 1 - j], j = 1 .. k
RECURSIVE U64Column(_, _, _, _)
U64Column(a, b, k, j) ==
    IF j > k THEN 0 ELSE a[j] * b[k + 1 - j] + U64Column(a, b, k, j + 1)

\* a * b, byte k onwards, with the carry into byte k
RECURSIVE U64MulFrom(_, _, _, _)
U64MulFrom(a, b, k, carry) ==
    IF k > U64Bytes THEN <<>>
    ELSE LET s == U64Column(a, b, k, 1) + carry
         IN <<s % 256>> \o U64MulFrom(a, b, k + 1, s \div 256)

\* a * b of two uint64_t
U64Mul(a, b) == U64MulFrom(a, b, 1, 0)

\* 1000000000ULL
NSEC_PER_SEC == 1000000000

\* (uint64_t)ts->tv_sec * 1000000000ULL + ts->tv_nsec
timespec_ns(ts) == U64Add(U64Mul(U64(ts.tv_sec), U64(NSEC_PER_SEC)), U64(ts.tv_nsec))

\* timespec_diff_ns(&start, &end): return end_ns - start_ns, in uint64_t
timespec_diff_ns(s, e) ==
    LET start_ns == timespec_ns(s)
        end_ns   == timespec_ns(e)
    IN U64Sub(end_ns, start_ns)

\* the struct timespec clock_gettime writes at `ns` nanoseconds on the clock
ClockAt(ns) == [tv_sec |-> ns \div NSEC_PER_SEC, tv_nsec |-> ns % NSEC_PER_SEC]

----------------------------------------------------------------------------
(* Argument parsing: strtoull, strtol, atol and atoi in base 10.  An argument *)
(* is the sequence of its characters.                                         *)

Digits == <<"0", "1", "2", "3", "4", "5", "6", "7", "8", "9">>

IsDigit(c) == \E k \in 1 .. Len(Digits) : Digits[k] = c
DigitValue(c) == (CHOOSE k \in 1 .. Len(Digits) : Digits[k] = c) - 1

\* the vertical tab '\v' (character 11), which a string cannot escape: the
\* character is written as the two letters of its C escape
VT == "\\v"

\* isspace(c) in the "C" locale: space, \t, \n, \v, \f and \r
IsSpace(c) == c \in {" ", "\t", "\n", VT, "\f", "\r"}

\* the first position at or after k that holds no white space
RECURSIVE SkipSpaces(_, _)
SkipSpaces(s, k) == IF k <= Len(s) /\ IsSpace(s[k]) THEN SkipSpaces(s, k + 1) ELSE k

\* the first position at or after k that holds no digit
RECURSIVE DigitsEnd(_, _)
DigitsEnd(s, k) == IF k <= Len(s) /\ IsDigit(s[k]) THEN DigitsEnd(s, k + 1) ELSE k

\* the subject sequence of a conversion: white space, an optional sign, digits.
\* end is the position *endptr points at (Len(s) + 1 is the terminating
\* '\0'); with no digits nothing is converted and endptr is the argument itself
ScanInteger(s) ==
    LET a == SkipSpaces(s, 1)
        signed == a <= Len(s) /\ s[a] \in {"+", "-"}
        b == IF signed THEN a + 1 ELSE a
        e == DigitsEnd(s, b)
    IN IF e = b THEN [neg |-> FALSE, digits |-> <<>>, end |-> 1]
       ELSE [neg |-> signed /\ s[a] = "-", digits |-> SubSeq(s, b, e - 1), end |-> e]

\* a digit sequence without its leading zeros
RECURSIVE StripZeros(_)
StripZeros(d) == IF d # <<>> /\ Head(d) = "0" THEN StripZeros(Tail(d)) ELSE d

\* the number written by digits a is larger than the one written by digits b
\* (neither with leading zeros)
DecimalGreater(a, b) ==
    \/ Len(a) > Len(b)
    \/ /\ Len(a) = Len(b)
       /\ \E k \in 1 .. Len(a) :
             /\ DigitValue(a[k]) > DigitValue(b[k])
             /\ \A j \in 1 .. (k - 1) : a[j] = b[j]

\* the uint64_t acc * 10^Len(d) + d, digit by digit (wrapping)
RECURSIVE U64FromDigits(_, _)
U64FromDigits(d, acc) ==
    IF d = <<>> THEN acc
    ELSE LET next == U64Add(U64Mul(acc, U64(10)), U64(DigitValue(Head(d))))
         IN IF Len(next) = U64Bytes THEN U64FromDigits(Tail(d), next) ELSE next

\* ULLONG_MAX = 2^64 - 1, LONG_MAX = 2^63 - 1, -LONG_MIN = 2^63
ULLONG_MAX == [k \in 1 .. U64Bytes |-> 255]
LONG_MAX == [k \in 1 .. U64Bytes |-> IF k = U64Bytes THEN 127 ELSE 255]
LONG_MIN_MAGNITUDE == [k \in 1 .. U64Bytes |-> IF k = U64Bytes THEN 128 ELSE 0]
ULLONG_MAX_DIGITS == <<"1", "8", "4", "4", "6", "7", "4", "4", "0", "7", "3", "7", "0", "9", "5", "5", "1", "6", "1", "5">>
LONG_MAX_DIGITS == <<"9", "2", "2", "3", "3", "7", "2", "0", "3", "6", "8", "5", "4", "7", "7", "5", "8", "0", "7">>
LONG_MIN_DIGITS == <<"9", "2", "2", "3", "3", "7", "2", "0", "3", "6", "8", "5", "4", "7", "7", "5", "8", "0", "8">>

\* strtoull(s, &endptr, 10): the value and the position of endptr.  A value
\* beyond ULLONG_MAX gives ULLONG_MAX; a minus sign negates in uint64_t
strtoull(s) ==
    LET sc  == ScanInteger(s)
        mag == U64FromDigits(sc.digits, U64(0))
    IN [value |-> IF DecimalGreater(StripZeros(sc.digits), ULLONG_MAX_DIGITS) THEN ULLONG_MAX
                  ELSE IF sc.neg THEN U64Sub(U64(0), mag)
                  ELSE mag,
        end |-> sc.end]

\* strtol(s, &endptr, 10): the long as sign and magnitude, and the position of
\* endptr.  A value out of range gives LONG_MAX or LONG_MIN
strtol(s) ==
    LET sc  == ScanInteger(s)
        d   == StripZeros(sc.digits)
        mag == U64FromDigits(sc.digits, U64(0))
    IN [neg |-> sc.neg /\ d # <<>>,
        mag |-> IF ~sc.neg /\ DecimalGreater(d, LONG_MAX_DIGITS) THEN LONG_MAX
                ELSE IF sc.neg /\ DecimalGreater(d, LONG_MIN_DIGITS) THEN LONG_MIN_MAGNITUDE
                ELSE mag,
        end |-> sc.end]

\* a is below b, as uint64_t
U64Less(a, b) ==
    \E k \in 1 .. U64Bytes :
        /\ a[k] < b[k]
        /\ \A j \in (k + 1) .. U64Bytes : a[j] = b[j]

\* the int a long of magnitude below 2^31 converts to
LongValue(v) == IF v.neg THEN 0 - U64Value(v.mag) ELSE U64Value(v.mag)

\* the remainder of bytes k and above of a, read as a number, divided by d
RECURSIVE U64Rem(_, _, _)
U64Rem(a, d, k) == IF k > U64Bytes THEN 0 ELSE (U64Rem(a, d, k + 1) * 256 + a[k]) % d

\* a / d for a divisor d of up to 2^16: long division from the top byte down
U64Div(a, d) == [k \in 1 .. U64Bytes |-> (U64Rem(a, d, k + 1) * 256 + a[k]) \div d]

\* MB_TO_BYTES(mb) at the width of size_t: (size_t)(mb) * 1024 * 1024, modulo 2^64
MB_TO_BYTES64(mb) == U64Mul(mb, U64(1024 * 1024))

\* SIZE_MAX / (1024 * 1024) = 2^44 - 1
SIZE_MAX_MB == [k \in 1 .. U64Bytes |-> IF k <= 5 THEN 255 ELSE IF k = 6 THEN 15 ELSE 0]

----------------------------------------------------------------------------
(* The pseudo-random generator *)

\* (a + b) mod 2^31 for 0 <= a, b < 2^31, without leaving 32-bit integers
AddMod31(a, b) == IF a > 2147483647 - b THEN (a - 2147483647) + b - 1 ELSE a + b

\* rand_state = (rand_state * 1103515245 + 12345) & 0x7fffffff, the product
\* taken in 16-bit halves (1103515245 = 16838 * 2^16 + 20077)
lcg_next(state) ==
    LET lo    == state % 65536
        hi    == state \div 65536
        cross == (lo * 16838 + hi * 20077) % 32768
    IN AddMod31(AddMod31(cross * 65536, lo * 20077), 12345)

\* a plausible change: the value taken from the state without its low 16 bits
fast_rand_range_high(state, max) ==
    LET s == lcg_next(state) IN [state |-> s, value |-> (s \div 65536) % max]

\* fast_rand_range(max) of mem_mixed_bench: the new state and the value drawn
fast_rand_range(state, max) ==
    LET s == lcg_next(state) IN [state |-> s, value |-> s % max]

\* a plausible change: the byte taken from bits 16..23 of the state
fast_rand_high(state) ==
    LET s == lcg_next(state) IN [state |-> s, value |-> (s \div 65536) % 256]

\* fast_rand() of the other tools: the new state and its low byte
fast_rand(state) ==
    LET s == lcg_next(state) IN [state |-> s, value |-> s % 256]

\* the seed every tool starts from
RandSeed == 12345

\* (a * b) mod 2^31 for 0 <= a, b < 2^31, the product taken in 16-bit halves
\* (and the low halves' product in two steps) so as to stay within 32-bit
\* integers
MulMod31(a, b) ==
    LET al    == a % 65536
        ah    == a \div 65536
        bl    == b % 65536
        bh    == b \div 65536
        cross == (((ah * bl) % 32768) + ((al * bh) % 32768)) % 32768
        low   == AddMod31(((al * (bl \div 256)) % 8388608) * 256, al * (bl % 256))
    IN AddMod31(cross * 65536, low)

\* two updates state -> (state * mul + add) & 0x7fffffff in a row, first p
\* then q, as one update
lcg_compose(p, q) ==
    [mul |-> MulMod31(p.mul, q.mul), add |-> AddMod31(MulMod31(p.add, q.mul), q.add)]

\* the state update of one fast_rand() call
lcg_once == [mul |-> 1103515245, add |-> 12345]

\* n state updates of fast_rand() in a row, as one update: the update of
\* n \div 2 calls applied twice, then lcg_once for an odd n (the test on h
\* has the half evaluated before it is used)
RECURSIVE lcg_power(_)
lcg_power(n) ==
    IF n = 0 THEN [mul |-> 1, add |-> 0]
    ELSE LET h == lcg_power(n \div 2)
         IN IF h.mul < 0 THEN h
            ELSE IF n % 2 = 0 THEN lcg_compose(h, h)
            ELSE lcg_compose(lcg_compose(h, h), lcg_once)

\* rand_state after n calls of fast_rand(), the bytes drawn left aside:
\* fast_rand_bytes(state, n).state
fast_rand_skip(state, n) ==
    LET p == lcg_power(n) IN AddMod31(MulMod31(state, p.mul), p.add)

----------------------------------------------------------------------------
(* The pattern generators: fill_pattern of mem_pressure and fill_page of       *)
(* mem_write_bench.  A filled range is the sequence of the bytes written, byte *)
(* p of the range at index p + 1; each generator also returns the rand_state   *)
(* it leaves and, for the Mixed kind, the sub-chunks it went through.          *)

PAGE_SIZE == 4096

\* #define ACCESS_STEP 65536 of mem_pressure: the distance between two bytes
\* the passes touch
ACCESS_STEP == 65536

\* n consecutive fast_rand() results and the state after them (the range is
\* halved rather than walked so that long ranges do not nest deeply)
RECURSIVE fast_rand_bytes(_, _)
fast_rand_bytes(state, n) ==
    IF n = 0 THEN [bytes |-> <<>>, state |-> state]
    ELSE IF n = 1
    THEN LET r == fast_rand(state) IN [bytes |-> <<r.value>>, state |-> r.state]
    ELSE LET a == fast_rand_bytes(state, n \div 2)
             b == fast_rand_bytes(a.state, n - (n \div 2))
         IN [bytes |-> a.bytes \o b.bytes, state |-> b.state]

\* memset(buffer, c, n)
memset(c, n) == [p \in 1 .. n |-> c % 256]

\* a plausible bug: the position within the call alone, the offset dropped
sequential_byte_relative(offset, p) == p % 256

\* (unsigned char)((offset + i) % 256)
sequential_byte(offset, p) == (offset + p) % 256

\* for (i = 0; i < n; i++) buffer[i] = (unsigned char)((offset + i) % 256)
sequential_bytes(offset, n) == [p \in 1 .. n |-> sequential_byte(offset, p - 1)]

\* a plausible bug: every sub-chunk a whole page, the end of the range ignored
mixed_chunk_size_whole(size, k) == PAGE_SIZE

\* chunk_size = (size - i) < PAGE_SIZE ? (size - i) : PAGE_SIZE
mixed_chunk_size(size, k) == IF size - k < PAGE_SIZE THEN size - k ELSE PAGE_SIZE

\* the inner switch (subpattern) of both generators: the bytes of one
\* sub-chunk; `repeated` is the byte the Repeated sub-pattern is given
subpattern_bytes(subpattern, n, repeated, offset, state) ==
    CASE subpattern = 0 -> fast_rand_bytes(state, n)
      [] subpattern = 1 -> [bytes |-> memset(repeated, n), state |-> state]
      [] subpattern = 2 -> [bytes |-> memset(0, n), state |-> state]
      [] OTHER          -> [bytes |-> sequential_bytes(offset, n), state |-> state]

\* a plausible change: the page number as the repeated byte, as fill_page has it
repeated_byte_page(position) == (position \div PAGE_SIZE) % 256

\* the byte of a Repeated sub-chunk of fill_pattern: (offset + i) % 256
repeated_byte(position) == position % 256

\* case 0 / default of fill_pattern from loop index k on:
\* for (i = 0; i < size; i += PAGE_SIZE) { chunk_size; subpattern; switch }
RECURSIVE fill_pattern_mixed(_, _, _, _)
fill_pattern_mixed(size, offset, k, state) ==
    IF k >= size THEN [bytes |-> <<>>, state |-> state, subs |-> <<>>]
    ELSE LET chunk_size == mixed_chunk_size(size, k)
             subpattern == ((offset + k) \div PAGE_SIZE) % 4
             sub  == subpattern_bytes(subpattern, chunk_size, repeated_byte(offset + k),
                                      offset + k, state)
             rest == fill_pattern_mixed(size, offset, k + PAGE_SIZE, sub.state)
         IN [bytes |-> sub.bytes \o rest.bytes,
             state |-> rest.state,
             subs  |-> <<[at |-> k, len |-> chunk_size, subpattern |-> subpattern]>>
                       \o rest.subs]

\* fill_pattern(buffer, size, pattern_type, offset)
fill_pattern(size, pattern, offset, state) ==
    CASE pattern = 1 -> [fast_rand_bytes(state, size) EXCEPT !.state = @] @@ [subs |-> <<>>]
      [] pattern = 2 -> [bytes |-> memset(0, size), state |-> state, subs |-> <<>>]
      [] pattern = 3 -> [bytes |-> sequential_bytes(offset, size), state |-> state,
                         subs |-> <<>>]
      [] OTHER       -> fill_pattern_mixed(size, offset, 0, state)

\* fill_page(page, pattern_type, page_index): PAGE_SIZE bytes
fill_page(pattern, page_index, state) ==
    CASE pattern = 1 -> [fast_rand_bytes(state, PAGE_SIZE) EXCEPT !.state = @]
                        @@ [subs |-> <<>>]
      [] pattern = 2 -> [bytes |-> memset(0, PAGE_SIZE), state |-> state, subs |-> <<>>]
      [] pattern = 3 -> [bytes |-> sequential_bytes(page_index * PAGE_SIZE, PAGE_SIZE),
                         state |-> state, subs |-> <<>>]
      [] OTHER       ->
            LET subpattern == page_index % 4
                sub == subpattern_bytes(subpattern, PAGE_SIZE, page_index % 256,
                                        page_index * PAGE_SIZE, state)
            IN [bytes |-> sub.bytes, state |-> sub.state,
                subs  |-> <<[at |-> 0, len |-> PAGE_SIZE, subpattern |-> subpattern]>>]

\* rand_state after case 0 / default of fill_pattern from loop index k on:
\* the sub-chunks of subpattern 0 draw one fast_rand() per byte, the others none
RECURSIVE fill_pattern_mixed_rand(_, _, _, _)
fill_pattern_mixed_rand(size, offset, k, state) ==
    IF k >= size THEN state
    ELSE LET chunk_size == mixed_chunk_size(size, k)
             subpattern == ((offset + k) \div PAGE_SIZE) % 4
             next == IF subpattern = 0 THEN fast_rand_skip(state, chunk_size) ELSE state
         IN IF next >= 0 THEN fill_pattern_mixed_rand(size, offset, k + PAGE_SIZE, next)
            ELSE next

\* rand_state after fill_pattern(buffer, size, pattern_type, offset):
\* fill_pattern(size, pattern, offset, state).state, the bytes left aside
fill_pattern_rand(size, pattern, offset, state) ==
    CASE pattern = 1      -> fast_rand_skip(state, size)
      [] pattern \in {2, 3} -> state
      [] OTHER            -> fill_pattern_mixed_rand(size, offset, 0, state)

\* rand_state after fill_page(page, pattern_type, page_index):
\* fill_page(pattern, page_index, state).state, the bytes left aside
fill_page_rand(pattern, page_index, state) ==
    CASE pattern = 1      -> fast_rand_skip(state, PAGE_SIZE)
      [] pattern \in {2, 3} -> state
      [] OTHER            -> IF page_index % 4 = 0 THEN fast_rand_skip(state, PAGE_SIZE)
                             ELSE state

----------------------------------------------------------------------------
(* mem_read_bench: the access order *)

STRIDE_SIZE == 16

\* a plausible bug: the exchange without the temporary, array[j] overwritten
\* by array[i] before it was saved
Swap_overwriting(array, a, b) == [array EXCEPT ![a] = array[b]]

\* array with the elements at 1-based positions a and b exchanged
Swap(array, a, b) == [array EXCEPT ![a] = array[b], ![b] = array[a]]

\* the iterations lo <= i < hi of the loop of shuffle_array(array, n), one
\* after the other, threading rand_state:
\*   j = i + (fast_rand() % (n - i)); exchange array[j] and array[i]
\* (the span is halved rather than walked, and the first half evaluated
\* before the second is entered, so that long arrays do not nest deeply)
RECURSIVE shuffle_steps(_, _, _, _, _)
shuffle_steps(array, n, lo, hi, state) ==
    IF lo >= hi THEN [array |-> array, state |-> state]
    ELSE IF hi = lo + 1
    THEN LET r == fast_rand(state)
             j == lo + (r.value % (n - lo))
         IN [array |-> Swap(array, j + 1, lo + 1), state |-> r.state]
    ELSE LET mid   == (lo + hi) \div 2
             first == shuffle_steps(array, n, lo, mid, state)
         IN IF Len(first.array) = Len(array)
            THEN shuffle_steps(first.array, n, mid, hi, first.state)
            ELSE first

\* if (n > 1) for (i = 0; i < n - 1; i++) { ... }, on the first n elements
shuffle_array(array, n, state) ==
    IF n > 1 THEN shuffle_steps(SubSeq(array, 1, n), n, 0, n - 1, state)
    ELSE [array |-> array, state |-> state]

\* a plausible bug: the pages after the last whole stride left out
stride_order_whole(n) == [k \in 1 .. (n \div STRIDE_SIZE) |-> (k - 1) * STRIDE_SIZE]

\* the stride branch: access_order[stride_count++] = i for i = 0, 16, 32, ...
stride_order(n) ==
    LET stride_count == (n + STRIDE_SIZE - 1) \div STRIDE_SIZE
    IN [k \in 1 .. stride_count |-> (k - 1) * STRIDE_SIZE]

\* a plausible bug: the pages numbered from the last to the first
sequential_order_descending(n) == [k \in 1 .. n |-> n - k]

\* for (i = 0; i < num_pages; i++) access_order[i] = i
sequential_order(n) == [k \in 1 .. n |-> k - 1]

\* the access order main() builds, and the rand_state it leaves
build_access_order(pattern, n, state) ==
    IF pattern = 2 THEN [array |-> stride_order(n), state |-> state]
    ELSE IF pattern = 1 THEN shuffle_array(sequential_order(n), n, state)
    ELSE [array |-> sequential_order(n), state |-> state]

----------------------------------------------------------------------------
(* Resources and history *)

Resources == {"memory", "stats", "order", "read_stats", "write_stats"}

Acquire(r, rs) == [rs EXCEPT ![r].acquired = @ + 1]
Release(r, rs) == [rs EXCEPT ![r].released = @ + 1]

\* the phase names of the driver for the positions of main()
PhaseOf(p) ==
    CASE p \in {"fill", "fill_check"} -> "Filling"
      [] p \in {"evict", "pass_outer", "pass_inner", "pass_sleep", "pass_check"} -> "Evicting"
      [] p \in {"settle", "settle_sleep", "settle_check"} -> "Settling"
      [] p \in {"probe", "probe_op"} -> "Probing"
      [] p \in {"hold", "hold_call", "hold_sleep"} -> "Holding"
      [] OTHER -> "Other"

NoHistory == [sig_at |-> "none", sig_n |-> 0, signo |-> "none", seen_in |-> "none",
              cut |-> "none", fatal |-> FALSE, hints |-> 0]

\* main() reads the flag at position pc: remember where it first saw it set
Observe == IF interrupted /\ hist.seen_in = "none"
           THEN [hist EXCEPT !.seen_in = PhaseOf(pc)]
           ELSE hist

\* the flag ends the phase main() is in before its work is done
CutShort == IF hist.cut = "none"
            THEN [Observe EXCEPT !.cut = PhaseOf(pc)]
            ELSE Observe

\* an allocation failed and main() returns 1 for it
Fatal == [hist EXCEPT !.fatal = TRUE]

NoProbe == [n |-> 0, pages |-> <<>>, op |-> "none", refused |-> FALSE, recorded |-> FALSE]
NoReport == [ran |-> FALSE, mapped |-> FALSE,
             reads |-> [k \in Kinds |-> {}], divs |-> [k \in Kinds |-> {}]]
NoOutput == [docs |-> <<>>, nodata |-> FALSE]

\* the sample buffer a single-purpose benchmark uses
KindOf(t) == IF t = "write" THEN "write" ELSE "read"

----------------------------------------------------------------------------
(* Initial states: after argument parsing and signal(SIGTERM/SIGINT, ...) *)

\* the variables of the single-function specifications, at rest
NULL == "NULL"

\* mem_locker's statics as the loader leaves them, nothing called yet
NoLocker ==
    /\ keep_running = 1
    /\ locked_memory = NULL
    /\ calls = [malloc |-> 0, mlock |-> 0, locked |-> FALSE, munlock |-> 0, free |-> 0,
                cleanup |-> <<>>]

NoBuffer ==
    /\ NoLocker
    /\ argv = <<>>
    /\ size_mb = U64(0)
    /\ memory = <<>>
    /\ total_size = 0
    /\ subpatterns = <<>>
    /\ start = ClockAt(0)
    /\ end = ClockAt(0)
    /\ latency = U64(0)

NoUnit == NoBuffer /\ pattern_type = 0

\* the pattern types main() hands to the generators: 0-3 are all
\* mem_write_bench accepts; mem_pressure takes any int and fill_pattern treats
\* all but 1-3 as 0 does
PatternTypes == 0 .. 3

\* page counts around whole strides, for the stride access pattern only
StridePages == {k * STRIDE_SIZE + r : k \in 1 .. MaxStrides, r \in {0, 1}}

Benchmarks == {"read", "write", "mixed"}
Tools == Benchmarks \cup {"pressure"}

Init ==
    /\ tool \in Tools
    /\ pc = "mmap"
    /\ interrupted = FALSE
    /\ access_pattern \in IF tool = "read" THEN 0 .. 2 ELSE {0}
    /\ num_pages \in CASE tool = "pressure" -> {2 * k : k \in 1 .. MaxPages}
                     [] tool = "read" /\ access_pattern = 2 -> (1 .. MaxPages) \cup StridePages
                     [] OTHER -> 1 .. MaxPages
    /\ read_pct \in IF tool = "mixed" THEN {0, 50, 70, 100} ELSE {70}
    /\ hold_seconds \in IF tool = "pressure" THEN 0 .. MaxHold ELSE {0}
    /\ i = 0
    /\ pass = 0
    /\ elapsed = 0
    /\ rand_state = RandSeed
    /\ access_order = <<>>
    /\ stats = [k \in Kinds |-> EmptyStats(0)]
    /\ res = [r \in Resources |-> [acquired |-> 0, released |-> 0]]
    /\ out = NoOutput
    /\ exit_code = -1
    /\ fed = [k \in Kinds |-> <<>>]
    /\ probe = NoProbe
    /\ rep = NoReport
    /\ hist = NoHistory
    /\ requested = num_pages
    /\ NoBuffer
    /\ pattern_type \in IF tool \in {"write", "pressure"} THEN PatternTypes ELSE {0}

\* return <code> from main()
Exit(code) == /\ pc' = "exit"
              /\ exit_code' = code

----------------------------------------------------------------------------
(* signal_handler: interrupted = 1, for SIGTERM and SIGINT alike *)

\* a handler that acts on SIGTERM only
handler_value_sigterm(signo, flag) == flag \/ signo = "SIGTERM"

\* the value the handler stores in the flag: interrupted = 1
handler_value(signo, flag) == TRUE

\* sleep() returns once a signal handler has run: main() goes on behind the
\* call, at the check after the settling sleep or at the test of the loop
\* that sleeps (the hold loop of mem_pressure, the wait loop of mem_locker)
sleep_return(p) ==
    CASE p = "settle_sleep" -> "settle_check"
      [] p = "hold_sleep"   -> "hold"
      [] p = "wait_sleep"   -> "wait"
      [] OTHER              -> p

signal_handler(signo) ==
    /\ tool \in Tools
    /\ pc # "exit"
    /\ pc' = sleep_return(pc)
    /\ interrupted' = handler_value(signo, interrupted)
    /\ hist' = [(IF interrupted' = interrupted THEN hist
                ELSE [hist EXCEPT !.sig_at = pc, !.sig_n = probe.n])
               EXCEPT !.signo = signo]
    /\ UNCHANGED <<unit_vars, requested, tool, num_pages, access_pattern, read_pct, hold_seconds, i, pass,
                   elapsed, rand_state, access_order, stats, res, out, exit_code, fed,
                   probe, rep>>

----------------------------------------------------------------------------
(* The benchmarks: setup *)

\* memory = mmap(NULL, total_size, ...); MAP_FAILED: return 1
Mmap ==
    /\ tool \in Benchmarks /\ pc = "mmap"
    /\ \/ /\ res' = Acquire("memory", res)
          /\ pc' = "alloc_stats"
          /\ UNCHANGED <<exit_code, hist>>
       \/ /\ Exit(1)
          /\ hist' = Fatal
          /\ UNCHANGED res
    /\ UNCHANGED <<unit_vars, requested, tool, interrupted, num_pages, access_pattern, read_pct, hold_seconds, i,
                   pass, elapsed, rand_state, access_order, stats, out, fed, probe, rep>>

\* mem_read_bench / mem_write_bench: stats.latencies = malloc(num_pages * 8);
\* NULL: munmap, return 1.  (mem_write_bench's exit on num_pages >
\* SIZE_MAX / sizeof(uint64_t) cannot be taken: size_mb <= SIZE_MAX / 2^20.
\* mem_read_bench sets only count = 0; its min_ns, max_ns and total_ns stay
\* unset until calculate_statistics writes them, and are not read before.)
AllocStats ==
    /\ tool \in {"read", "write"} /\ pc = "alloc_stats"
    /\ \/ /\ res' = Acquire("stats", res)
          /\ stats' = [stats EXCEPT ![KindOf(tool)] = EmptyStats(num_pages)]
          /\ i' = 0
          /\ pc' = "fill"
          /\ UNCHANGED <<exit_code, hist>>
       \/ /\ res' = Release("memory", res)
          /\ Exit(1)
          /\ hist' = Fatal
          /\ UNCHANGED <<stats, i>>
    /\ UNCHANGED <<unit_vars, requested, tool, interrupted, num_pages, access_pattern, read_pct, hold_seconds,
                   pass, elapsed, rand_state, access_order, out, fed, probe, rep>>

\* mem_mixed_bench: init_stats(&read_stats, num_pages); init_stats(&write_stats,
\* num_pages); if either buffer is NULL: munmap, return 1
InitStats ==
    /\ tool = "mixed" /\ pc = "alloc_stats"
    /\ \E rok \in BOOLEAN, wok \in BOOLEAN :
          LET r1 == IF rok THEN Acquire("read_stats", res) ELSE res
              r2 == IF wok THEN Acquire("write_stats", r1) ELSE r1
          IN IF rok /\ wok
             THEN /\ res' = r2
                  /\ stats' = [k \in Kinds |-> EmptyStats(num_pages)]
                  /\ i' = 0
                  /\ pc' = "fill"
                  /\ UNCHANGED <<exit_code, hist>>
             ELSE /\ res' = Release("memory", r2)
                  /\ Exit(1)
                  /\ hist' = Fatal
                  /\ UNCHANGED <<stats, i>>
    /\ UNCHANGED <<unit_vars, requested, tool, interrupted, num_pages, access_pattern, read_pct, hold_seconds,
                   pass, elapsed, rand_state, access_order, out, fed, probe, rep>>

\* a plausible bug: the checks after the setup phases missing
SetupInterrupted_ignored(flag) == FALSE

\* if (interrupted) { ...release...; return 1; } after a setup phase
SetupInterrupted(flag) == flag

\* the fill loop: for (i = 0; i < num_pages && !interrupted; i++) fill page i.
\* mem_write_bench fills through fill_page(page, pattern_type, i), which draws
\* from fast_rand(); the other two store fixed bytes and draw nothing
Fill ==
    /\ tool \in Benchmarks /\ pc = "fill"
    /\ IF i < num_pages /\ ~interrupted
       THEN /\ i' = i + 1
            /\ rand_state' = IF tool = "write" THEN fill_page_rand(pattern_type, i, rand_state)
                              ELSE rand_state
            /\ UNCHANGED <<pc, hist>>
       ELSE /\ hist' = IF i < num_pages THEN CutShort ELSE hist
            /\ i' = 0
            /\ pc' = IF tool = "mixed" THEN "evict" ELSE "fill_check"
            /\ UNCHANGED rand_state
    /\ UNCHANGED <<unit_vars, requested, tool, interrupted, num_pages, access_pattern, read_pct, hold_seconds,
                   pass, elapsed, access_order, stats, res, out, exit_code, fed,
                   probe, rep>>

\* mem_read_bench / mem_write_bench after the fill loop:
\* if (interrupted) { free(stats.latencies); munmap; return 1; }
FillCheck ==
    /\ tool \in {"read", "write"} /\ pc = "fill_check"
    /\ hist' = IF interrupted THEN CutShort ELSE hist
    /\ IF SetupInterrupted(interrupted)
       THEN /\ res' = Release("memory", Release("stats", res))
            /\ Exit(1)
       ELSE /\ pc' = IF tool = "read" THEN "evict" ELSE "probe"
            /\ UNCHANGED <<res, exit_code>>
    /\ UNCHANGED <<unit_vars, requested, tool, interrupted, num_pages, access_pattern, read_pct, hold_seconds, i,
                   pass, elapsed, rand_state, access_order, stats, out, fed, probe, rep>>

\* mem_read_bench / mem_mixed_bench: madvise(page i, MADV_PAGEOUT) for every
\* page, the result ignored
Evict ==
    /\ tool \in {"read", "mixed"} /\ pc = "evict"
    /\ IF i < num_pages /\ ~interrupted
       THEN /\ i' = i + 1
            /\ hist' = [hist EXCEPT !.hints = @ + 1]
            /\ UNCHANGED pc
       ELSE /\ hist' = IF i < num_pages THEN CutShort ELSE hist
            /\ i' = 0
            /\ pc' = "settle"
    /\ UNCHANGED <<unit_vars, requested, tool, interrupted, num_pages, access_pattern, read_pct, hold_seconds,
                   pass, elapsed, rand_state, access_order, stats, res, out, exit_code, fed,
                   probe, rep>>

\* a plausible change: no sleep after bulk eviction
SettleSeconds_none(t) == 0

\* the seconds of the one sleep after bulk eviction: sleep(2) in
\* mem_read_bench, sleep(1) in mem_mixed_bench
SettleSeconds(t) == IF t = "read" THEN 2 ELSE 1

\* the call of sleep(2) / sleep(1), made whatever the flag says
Settle ==
    /\ tool \in {"read", "mixed"} /\ pc = "settle"
    /\ pc' = "settle_sleep"
    /\ elapsed' = 0
    /\ UNCHANGED <<unit_vars, requested, tool, interrupted, num_pages, access_pattern, read_pct, hold_seconds, i,
                   pass, rand_state, access_order, stats, res, out, exit_code, fed,
                   probe, rep, hist>>

\* inside sleep(): one more second passes, or the time is up and sleep returns
\* (signal_handler ends the call early)
SettleSleep ==
    /\ tool \in {"read", "mixed"} /\ pc = "settle_sleep"
    /\ IF elapsed < SettleSeconds(tool)
       THEN /\ elapsed' = elapsed + 1
            /\ UNCHANGED pc
       ELSE /\ pc' = "settle_check"
            /\ UNCHANGED elapsed
    /\ UNCHANGED <<unit_vars, requested, tool, interrupted, num_pages, access_pattern, read_pct, hold_seconds, i,
                   pass, rand_state, access_order, stats, res, out, exit_code, fed,
                   probe, rep, hist>>

\* after the sleep: if (interrupted) { free the sample buffers; munmap; return 1; }
SettleCheck ==
    /\ tool \in {"read", "mixed"} /\ pc = "settle_check"
    /\ hist' = IF interrupted THEN CutShort ELSE hist
    /\ IF SetupInterrupted(interrupted)
       THEN /\ res' = IF tool = "read"
                      THEN Release("memory", Release("stats", res))
                      ELSE Release("memory",
                                   Release("write_stats", Release("read_stats", res)))
            /\ Exit(1)
       ELSE /\ pc' = IF tool = "read" THEN "alloc_order" ELSE "probe"
            /\ UNCHANGED <<res, exit_code>>
    /\ UNCHANGED <<unit_vars, requested, tool, interrupted, num_pages, access_pattern, read_pct, hold_seconds, i,
                   pass, elapsed, rand_state, access_order, stats, out, fed, probe, rep>>

\* mem_read_bench: access_order = malloc(...); NULL: free, munmap, return 1;
\* else the order is built (the stride branch lowers num_pages to stride_count)
AllocOrder ==
    /\ tool = "read" /\ pc = "alloc_order"
    /\ \/ LET b == build_access_order(access_pattern, num_pages, rand_state)
          IN /\ res' = Acquire("order", res)
             /\ access_order' = b.array
             /\ rand_state' = b.state
             /\ num_pages' = Len(b.array)
             /\ i' = 0
             /\ pc' = "probe"
             /\ UNCHANGED <<exit_code, hist>>
       \/ /\ res' = Release("memory", Release("stats", res))
          /\ Exit(1)
          /\ hist' = Fatal
          /\ UNCHANGED <<access_order, rand_state, num_pages, i>>
    /\ UNCHANGED <<unit_vars, requested, tool, interrupted, access_pattern, read_pct, hold_seconds, pass, elapsed,
                   stats, out, fed, probe, rep>>

----------------------------------------------------------------------------
(* The benchmarks: the probe loops *)

\* stats.latencies[stats.count++] = latency (mem_read_bench, mem_write_bench)
store_latency(s, latency_ns) ==
    [s EXCEPT !.latencies = Append(@, latency_ns), !.count = @ + 1]

\* a plausible bug: add_latency storing without looking at the capacity
add_latency_unchecked(s, latency_ns) ==
    [s EXCEPT !.latencies = Append(@, latency_ns), !.count = @ + 1]

\* add_latency of mem_mixed_bench: dropped when the buffer is full
add_latency(s, latency_ns) ==
    IF s.count < s.capacity
    THEN [s EXCEPT !.latencies = Append(@, latency_ns), !.count = @ + 1]
    ELSE s

\* the probe loops read CLOCK_MONOTONIC before and after the operation: taken
\* here as start at 0 and end d nanoseconds later, the difference handed on as
\* the integer it is
ProbeDurations ==
    <<>> \o [d \in 1 .. MaxLat + 1 |-> U64Value(timespec_diff_ns(ClockAt(0), ClockAt(d - 1)))]

ProbeDuration(d) == ProbeDurations[d + 1]

\* mem_write_bench: if (result == 0) the sample is stored
WriteProbeRecords(result) == result = 0

\* a plausible bug: the loop going on after the flag was set
ProbeLoopRuns_ignoring(limit) == i < limit

\* the loop condition i < limit && !interrupted
ProbeLoopRuns(limit) == i < limit /\ ~interrupted

\* the bound of the probe loop: num_pages, in mem_mixed_bench operations = num_pages * 2
ProbeLimit(t) == IF t = "mixed" THEN num_pages * 2 ELSE num_pages

\* the head of the probe loop: for (i = 0; i < limit && !interrupted; i++).
\* The condition is evaluated here and the body runs as a step of its own,
\* so a signal can arrive between the two
ProbeLoop ==
    /\ tool \in Benchmarks /\ pc = "probe"
    /\ IF ProbeLoopRuns(ProbeLimit(tool))
       THEN /\ pc' = "probe_op"
            /\ UNCHANGED hist
       ELSE /\ hist' = IF i < ProbeLimit(tool) THEN CutShort ELSE Observe
            /\ pc' = "report"
    /\ UNCHANGED <<unit_vars, requested, tool, interrupted, num_pages, access_pattern, read_pct, hold_seconds,
                   i, pass, elapsed, rand_state, access_order, stats, res, out, exit_code,
                   fed, probe, rep>>

\* mem_read_bench, the loop body: touch page access_order[i], store the duration
ProbeReadStep ==
    /\ tool = "read" /\ pc = "probe_op"
    /\ \E d \in 0 .. MaxLat :
          /\ stats' = [stats EXCEPT !["read"] = store_latency(@, ProbeDuration(d))]
          /\ fed' = [fed EXCEPT !["read"] = Append(@, ProbeDuration(d))]
    /\ probe' = [n |-> probe.n + 1,
                 pages |-> Append(probe.pages, access_order[i + 1]),
                 op |-> "read", refused |-> FALSE, recorded |-> TRUE]
    /\ i' = i + 1
    /\ pc' = "probe"
    /\ UNCHANGED <<requested, tool, interrupted, num_pages, access_pattern, read_pct, hold_seconds,
                   pass, elapsed, rand_state, access_order, res, out, exit_code, rep, hist>>

\* the loop body where the bytes of the region are not followed
ProbeRead == ProbeReadStep /\ UNCHANGED unit_vars

\* mem_write_bench: result = madvise(page i, MADV_PAGEOUT), timed; the
\* duration is stored only if result == 0
ProbeWrite ==
    /\ tool = "write" /\ pc = "probe_op"
    /\ \E d \in 0 .. MaxLat, result \in {0, -1} :
          /\ stats' = [stats EXCEPT !["write"] =
                          IF WriteProbeRecords(result)
                          THEN store_latency(@, ProbeDuration(d)) ELSE @]
          /\ fed' = [fed EXCEPT !["write"] =
                          IF WriteProbeRecords(result)
                          THEN Append(@, ProbeDuration(d)) ELSE @]
          /\ probe' = [n |-> probe.n + 1, pages |-> Append(probe.pages, i),
                       op |-> "write", refused |-> (result # 0),
                       recorded |-> WriteProbeRecords(result)]
    /\ i' = i + 1
    /\ pc' = "probe"
    /\ UNCHANGED <<unit_vars, requested, tool, interrupted, num_pages, access_pattern, read_pct, hold_seconds,
                   pass, elapsed, rand_state, access_order, res, out, exit_code, rep, hist>>

\* a plausible bug: the comparison turned around
is_read_inverted(drawn, pct) == drawn >= pct

\* int is_read = (fast_rand_range(100) < (unsigned int)read_pct)
is_read(drawn, pct) == drawn < pct

\* mem_mixed_bench: operations = num_pages * 2; each iteration draws a page
\* and the operation kind, times a read of page[0] or a store to page[0]
\* followed by madvise(MADV_PAGEOUT) (result ignored), and hands the duration
\* to add_latency of that kind
ProbeMixedStep ==
    /\ tool = "mixed" /\ pc = "probe_op"
    /\ LET pg == fast_rand_range(rand_state, num_pages)
           rw == fast_rand_range(pg.state, 100)
           reading == is_read(rw.value, read_pct)
           kind == IF reading THEN "read" ELSE "write"
       IN /\ rand_state' = rw.state
          /\ \E d \in 0 .. MaxLat, result \in (IF reading THEN {0} ELSE {0, -1}) :
                LET s == add_latency(stats[kind], ProbeDuration(d))
                    stored == s.count > stats[kind].count
                IN /\ stats' = [stats EXCEPT ![kind] = s]
                   /\ fed' = [fed EXCEPT ![kind] =
                                 IF stored THEN Append(@, ProbeDuration(d)) ELSE @]
                   /\ probe' = [n |-> probe.n + 1,
                                pages |-> Append(probe.pages, pg.value), op |-> kind,
                                refused |-> (result # 0), recorded |-> stored]
    /\ i' = i + 1
    /\ pc' = "probe"
    /\ UNCHANGED <<requested, tool, interrupted, num_pages, access_pattern, read_pct, hold_seconds,
                   pass, elapsed, access_order, res, out, exit_code, rep, hist>>

\* the loop body where the bytes of the region are not followed
ProbeMixed == ProbeMixedStep /\ UNCHANGED unit_vars

----------------------------------------------------------------------------
(* The benchmarks: Reporting, cleanup, return *)

Mapped == res["memory"].acquired > res["memory"].released

\* calculate_statistics(&stats); print_results_json(&stats, ...)
ReportSingle ==
    /\ tool \in {"read", "write"} /\ pc = "report"
    /\ LET k == KindOf(tool)
           s == calculate_statistics(stats[k])
           p == print_results_json(s)
       IN /\ stats' = [stats EXCEPT ![k] = s]
          /\ out' = [docs |-> out.docs \o p.docs, nodata |-> p.nodata]
          /\ rep' = [ran |-> TRUE, mapped |-> Mapped,
                     reads |-> [x \in Kinds |->
                                  IF x = k
                                  THEN calculate_statistics_reads(stats[k]) \cup p.reads
                                  ELSE {}],
                     divs |-> [x \in Kinds |-> IF x = k THEN p.divs ELSE {}]]
    /\ pc' = "cleanup"
    /\ UNCHANGED <<unit_vars, requested, tool, interrupted, num_pages, access_pattern, read_pct, hold_seconds, i,
                   pass, elapsed, rand_state, access_order, res, exit_code, fed, probe,
                   hist>>

\* calculate_statistics(&read_stats); calculate_statistics(&write_stats);
\* print_results_json(&read_stats, &write_stats, ...)
ReportMixed ==
    /\ tool = "mixed" /\ pc = "report"
    /\ LET s == [k \in Kinds |-> calculate_statistics(stats[k])]
           p == print_results_json_mixed(s["read"], s["write"])
       IN /\ stats' = s
          /\ out' = [docs |-> out.docs \o p.docs, nodata |-> p.nodata]
          /\ rep' = [ran |-> TRUE, mapped |-> Mapped,
                     reads |-> [k \in Kinds |->
                                  calculate_statistics_reads(stats[k]) \cup p.reads[k]],
                     divs |-> p.divs]
    /\ pc' = "cleanup"
    /\ UNCHANGED <<unit_vars, requested, tool, interrupted, num_pages, access_pattern, read_pct, hold_seconds, i,
                   pass, elapsed, rand_state, access_order, res, exit_code, fed, probe,
                   hist>>

\* the releases at the end of main(), in order
CleanupFrees(t) ==
    CASE t = "read"  -> <<"order", "stats", "memory">>
      [] t = "write" -> <<"stats", "memory">>
      [] OTHER       -> <<"read_stats", "write_stats", "memory">>

RECURSIVE ReleaseAll(_, _)
ReleaseAll(rs, names) ==
    IF names = <<>> THEN rs ELSE ReleaseAll(Release(Head(names), rs), Tail(names))

Cleanup ==
    /\ tool \in Benchmarks /\ pc = "cleanup"
    /\ res' = ReleaseAll(res, CleanupFrees(tool))
    /\ pc' = "return"
    /\ UNCHANGED <<unit_vars, requested, tool, interrupted, num_pages, access_pattern, read_pct, hold_seconds, i,
                   pass, elapsed, rand_state, access_order, stats, out, exit_code, fed,
                   probe, rep, hist>>

\* return interrupted ? 1 : 0;
ReturnCode(flag) == IF flag THEN 1 ELSE 0

Return ==
    /\ tool \in Benchmarks /\ pc = "return"
    /\ hist' = Observe
    /\ Exit(ReturnCode(interrupted))
    /\ UNCHANGED <<unit_vars, requested, tool, interrupted, num_pages, access_pattern, read_pct, hold_seconds, i,
                   pass, elapsed, rand_state, access_order, stats, res, out, fed, probe, rep>>

----------------------------------------------------------------------------
(* mem_pressure.  num_pages is total_size, counted in ACCESS_STEP units; a    *)
(* CHUNK_SIZE is ChunkUnits of them (scaled down from 1024).                  *)

\* units filled by one fill_pattern call of the driver loop
ChunkUnits == 2
\* for (pass = 0; pass < 3 && !interrupted; pass++)
NumPasses == 3

\* memory = malloc(total_size); NULL: retry with half the size
PressureMalloc ==
    /\ tool = "pressure" /\ pc = "mmap"
    /\ \/ /\ res' = Acquire("memory", res)
          /\ pc' = "fill"
       \/ /\ pc' = "retry_half"
          /\ UNCHANGED res
    /\ i' = 0
    /\ UNCHANGED <<unit_vars, requested, tool, interrupted, num_pages, access_pattern, read_pct, hold_seconds,
                   pass, elapsed, rand_state, access_order, stats, out, exit_code, fed,
                   probe, rep, hist>>

\* a quarter instead of half the size
half_size_quarter(size) == size \div 4

\* size_t half_size = total_size / 2
half_size(size) == size \div 2

\* memory = malloc(half_size); NULL: return 1; else total_size = half_size
PressureRetry ==
    /\ tool = "pressure" /\ pc = "retry_half"
    /\ \/ /\ res' = Acquire("memory", res)
          /\ num_pages' = half_size(num_pages)
          /\ pc' = "fill"
          /\ UNCHANGED <<exit_code, hist>>
       \/ /\ Exit(1)
          /\ hist' = Fatal
          /\ UNCHANGED <<res, num_pages>>
    /\ UNCHANGED <<unit_vars, requested, tool, interrupted, access_pattern, read_pct, hold_seconds, i, pass,
                   elapsed, rand_state, access_order, stats, out, fed, probe, rep>>

\* while (filled < total_size && !interrupted) {
\*     chunk = min(total_size - filled, CHUNK_SIZE);
\*     fill_pattern(memory + filled, chunk, pattern_type, filled);  filled += chunk; }
\* (i is `filled`, in ACCESS_STEP units as num_pages is; fill_pattern is
\* given the byte counts and leaves rand_state where its draws took it)
PressureFill ==
    /\ tool = "pressure" /\ pc = "fill"
    /\ IF i < num_pages /\ ~interrupted
       THEN LET chunk == Min(ChunkUnits, num_pages - i)
            IN /\ rand_state' = fill_pattern_rand(chunk * ACCESS_STEP, pattern_type,
                                                  i * ACCESS_STEP, rand_state)
               /\ i' = i + chunk
               /\ UNCHANGED <<pc, hist>>
       ELSE /\ hist' = IF i < num_pages THEN CutShort ELSE hist
            /\ pc' = "fill_check"
            /\ UNCHANGED <<i, rand_state>>
    /\ UNCHANGED <<unit_vars, requested, tool, interrupted, num_pages, access_pattern, read_pct, hold_seconds,
                   pass, elapsed, access_order, stats, res, out, exit_code, fed,
                   probe, rep>>

\* if (interrupted) { free(memory); return 1; }  after the fill loop
PressureFillCheck ==
    /\ tool = "pressure" /\ pc = "fill_check"
    /\ hist' = IF interrupted THEN CutShort ELSE hist
    /\ IF SetupInterrupted(interrupted)
       THEN /\ res' = Release("memory", res)
            /\ Exit(1)
            /\ UNCHANGED pass
       ELSE /\ pass' = 0
            /\ pc' = "pass_outer"
            /\ UNCHANGED <<res, exit_code>>
    /\ UNCHANGED <<unit_vars, requested, tool, interrupted, num_pages, access_pattern, read_pct, hold_seconds, i,
                   elapsed, rand_state, access_order, stats, out, fed, probe, rep>>

\* for (pass = 0; pass < 3 && !interrupted; pass++)
PressurePass ==
    /\ tool = "pressure" /\ pc = "pass_outer"
    /\ IF pass < NumPasses /\ ~interrupted
       THEN /\ i' = 0
            /\ pc' = "pass_inner"
            /\ UNCHANGED hist
       ELSE /\ hist' = IF pass < NumPasses THEN CutShort ELSE hist
            /\ pc' = "pass_check"
            /\ UNCHANGED i
    /\ UNCHANGED <<unit_vars, requested, tool, interrupted, num_pages, access_pattern, read_pct, hold_seconds,
                   pass, elapsed, rand_state, access_order, stats, res, out, exit_code, fed,
                   probe, rep>>

\* for (i = 0; i < total_size && !interrupted; i += ACCESS_STEP) memory[i]++;
\* the loop left, main() is in usleep(300000)
PressureTouch ==
    /\ tool = "pressure" /\ pc = "pass_inner"
    /\ IF i < num_pages /\ ~interrupted
       THEN /\ i' = i + 1
            /\ UNCHANGED <<pc, hist>>
       ELSE /\ hist' = IF i < num_pages THEN CutShort ELSE hist
            /\ pc' = "pass_sleep"
            /\ UNCHANGED i
    /\ UNCHANGED <<unit_vars, requested, tool, interrupted, num_pages, access_pattern, read_pct, hold_seconds,
                   pass, elapsed, rand_state, access_order, stats, res, out, exit_code, fed,
                   probe, rep>>

\* usleep(300000) returns, after its time or early on a signal, and the pass
\* ends: pass++
PressureSleep ==
    /\ tool = "pressure" /\ pc = "pass_sleep"
    /\ pass' = pass + 1
    /\ pc' = "pass_outer"
    /\ UNCHANGED <<unit_vars, requested, tool, interrupted, num_pages, access_pattern, read_pct, hold_seconds,
                   i, elapsed, rand_state, access_order, stats, res, out, exit_code, fed,
                   probe, rep, hist>>

\* if (interrupted) { free(memory); return 1; }  after the passes, else
\* time_t hold_start = time(NULL): no second has passed since hold_start
PressurePassCheck ==
    /\ tool = "pressure" /\ pc = "pass_check"
    /\ hist' = IF interrupted THEN CutShort ELSE hist
    /\ IF SetupInterrupted(interrupted)
       THEN /\ res' = Release("memory", res)
            /\ Exit(1)
            /\ UNCHANGED elapsed
       ELSE /\ elapsed' = 0
            /\ pc' = "hold"
            /\ UNCHANGED <<res, exit_code>>
    /\ UNCHANGED <<unit_vars, requested, tool, interrupted, num_pages, access_pattern, read_pct, hold_seconds, i,
                   pass, rand_state, access_order, stats, out, fed, probe, rep>>

\* difftime with its arguments the wrong way round
difftime_swapped(time1, time0) == time0 - time1

\* double difftime(time_t time1, time_t time0): time1 - time0 in seconds
difftime(time1, time0) == time1 - time0

\* time_t hold_start = time(NULL): the reading the seconds of the hold are
\* counted from
hold_start == 0

\* time(NULL) as a test of the hold loop can read it, counted in whole seconds
\* from the reading hold_start holds.  It is the wall clock of the system:
\* between two readings it can stand still (two readings in one second), move
\* on by more than the second slept, or have been set, forward or back.
HoldClock == (0 - MaxClockBack) .. (MaxHold + MaxClockOver)

\* the test of while (!interrupted && difftime(time(NULL), hold_start) < hold_seconds)
\* with time(NULL) reading `now`: the flag set, the clock is not read and
\* the loop is left; else the loop is left if the reading is hold_seconds or
\* more past hold_start, and sleep(1) is the next call of main() if it is not
PressureHoldAt(now) ==
    /\ tool = "pressure" /\ pc = "hold"
    /\ IF interrupted
       THEN /\ hist' = IF elapsed < hold_seconds THEN CutShort ELSE Observe
            /\ pc' = "release"
            /\ UNCHANGED elapsed
       ELSE /\ elapsed' = difftime(now, hold_start)
            /\ IF elapsed' < hold_seconds
               THEN /\ pc' = "hold_call"
                    /\ UNCHANGED hist
               ELSE /\ pc' = "release"
                    /\ hist' = Observe
    /\ UNCHANGED <<unit_vars, requested, tool, interrupted, num_pages, access_pattern, read_pct, hold_seconds, i,
                   pass, rand_state, access_order, stats, res, out, exit_code, fed, probe,
                   rep>>

\* the test of the hold loop, whatever the clock reads
PressureHold == \E now \in HoldClock : PressureHoldAt(now)

\* sleep(1) of the hold loop is entered, whatever the flag has become since
\* the test
PressureHoldSleep ==
    /\ tool = "pressure" /\ pc = "hold_call"
    /\ pc' = "hold_sleep"
    /\ UNCHANGED <<unit_vars, requested, tool, interrupted, num_pages, access_pattern, read_pct, hold_seconds, i,
                   pass, elapsed, rand_state, access_order, stats, res, out, exit_code, fed, probe,
                   rep, hist>>

\* sleep(1) returns after its second (signal_handler ends the call before
\* that); the loop test, which reads the clock anew, is next
PressureHoldWake ==
    /\ tool = "pressure" /\ pc = "hold_sleep"
    /\ pc' = "hold"
    /\ UNCHANGED <<unit_vars, requested, tool, interrupted, num_pages, access_pattern, read_pct, hold_seconds, i,
                   pass, elapsed, rand_state, access_order, stats, res, out, exit_code, fed, probe,
                   rep, hist>>

\* a plausible change: the pressure tool returning like the benchmarks do
PressureReturnCode_flag(flag) == IF flag THEN 1 ELSE 0

\* the return 0 that ends mem_pressure's main()
PressureReturnCode(flag) == 0

\* free(memory); return 0;
PressureRelease ==
    /\ tool = "pressure" /\ pc = "release"
    /\ res' = Release("memory", res)
    /\ Exit(PressureReturnCode(interrupted))
    /\ UNCHANGED <<unit_vars, requested, tool, interrupted, num_pages, access_pattern, read_pct, hold_seconds, i,
                   pass, elapsed, rand_state, access_order, stats, out, fed, probe, rep,
                   hist>>

----------------------------------------------------------------------------
(* The tools' specification *)

Next ==
    \/ \E signo \in {"SIGTERM", "SIGINT"} : signal_handler(signo)
    \/ Mmap
    \/ AllocStats
    \/ InitStats
    \/ Fill
    \/ FillCheck
    \/ Evict
    \/ Settle
    \/ SettleSleep
    \/ SettleCheck
    \/ AllocOrder
    \/ ProbeLoop
    \/ ProbeRead
    \/ ProbeWrite
    \/ ProbeMixed
    \/ ReportSingle
    \/ ReportMixed
    \/ Cleanup
    \/ Return
    \/ PressureMalloc
    \/ PressureRetry
    \/ PressureFill
    \/ PressureFillCheck
    \/ PressurePass
    \/ PressureTouch
    \/ PressureSleep
    \/ PressurePassCheck
    \/ PressureHold
    \/ PressureHoldSleep
    \/ PressureHoldWake
    \/ PressureRelease

Spec == Init /\ [][Next]_vars

\* One step of main() outside the fill loops and the report: every action of
\* Next but the signal handler, the two fill actions and the two report
\* actions.
main ==
    \/ Mmap \/ AllocStats \/ InitStats \/ FillCheck \/ Evict
    \/ Settle \/ SettleSleep \/ SettleCheck \/ AllocOrder
    \/ ProbeLoop \/ ProbeRead \/ ProbeWrite \/ ProbeMixed
    \/ Cleanup \/ Return
    \/ PressureMalloc \/ PressureRetry \/ PressureFillCheck
    \/ PressurePass \/ PressureTouch \/ PressureSleep \/ PressurePassCheck
    \/ PressureHold \/ PressureHoldSleep \/ PressureHoldWake \/ PressureRelease

\* calculate_statistics and print_results_json, called by main() at "report"
report == ReportSingle \/ ReportMixed

\* when a report action can be taken: its guard, the rest of it is total
ReportEnabled == tool \in Benchmarks /\ pc = "report"

\* WF_vars(report), with ENABLED <<report>>_vars written out as ReportEnabled
ReportFair == []<>(~ReportEnabled) \/ []<><<report>>_vars

\* one step of a fill loop of main()
fill == Fill \/ PressureFill

\* when a fill action can be taken: its guard, the rest of it is total
FillEnabled == tool \in Tools /\ pc = "fill"

\* WF_vars(fill), with ENABLED <<fill>>_vars written out as FillEnabled
FillFair == []<>(~FillEnabled) \/ []<><<fill>>_vars

\* a test of the hold loop is about to read the clock
HoldReads == tool = "pressure" /\ pc = "hold" /\ ~interrupted

\* a test of the hold loop reads the clock at hold_seconds or more past hold_start
HoldExpires == \E now \in {t \in HoldClock : t >= hold_seconds} : PressureHoldAt(now)

\* Time passes: a hold loop that goes on reading the wall clock reads it,
\* sooner or later, at hold_seconds or more past hold_start (the clock is not
\* set back again and again for ever).  SF_vars(HoldExpires), with
\* ENABLED <<HoldExpires>>_vars written out as HoldReads.
ClockFair == <>[](~HoldReads) \/ []<><<HoldExpires>>_vars

\* The tools under a scheduler that keeps running the process: main() takes
\* its next step as long as it has one (every system call it makes returns),
\* and under a wall clock on which time passes.  Nothing is assumed about
\* signals: none, one or many may be delivered.
SpecLive == Init /\ [][Next]_vars /\ WF_vars(main) /\ FillFair /\ ReportFair /\ ClockFair

----------------------------------------------------------------------------
(* The statistics pipeline on arbitrary sample buffers *)

\* all sequences over S of length at most n
RECURSIVE SeqsUpTo(_, _)
SeqsUpTo(S, n) ==
    IF n = 0 THEN {<<>>}
    ELSE LET shorter == SeqsUpTo(S, n - 1)
         IN shorter \cup {Append(s, x) : s \in {q \in shorter : Len(q) = n - 1}, x \in S}

InitStatsPipeline ==
    /\ tool = "stats"
    /\ pc = "fed"
    /\ interrupted = FALSE
    /\ num_pages = MaxSamples
    /\ access_pattern = 0
    /\ read_pct = 70
    /\ hold_seconds = 0
    /\ i = 0
    /\ pass = 0
    /\ elapsed = 0
    /\ rand_state = RandSeed
    /\ access_order = <<>>
    /\ \E samples \in SeqsUpTo(0 .. MaxLat, MaxSamples) :
          /\ fed = [k \in Kinds |-> IF k = "read" THEN samples ELSE <<>>]
          /\ stats = [k \in Kinds |->
                        IF k = "read"
                        THEN [EmptyStats(MaxSamples) EXCEPT !.latencies = samples,
                                                            !.count = Len(samples)]
                        ELSE EmptyStats(MaxSamples)]
    /\ res = [r \in Resources |-> [acquired |-> 0, released |-> 0]]
    /\ out = NoOutput
    /\ exit_code = -1
    /\ probe = NoProbe
    /\ rep = NoReport
    /\ hist = NoHistory
    /\ requested = 0
    /\ NoUnit

\* calculate_statistics(&stats)
StatsCalculate ==
    /\ tool = "stats" /\ pc = "fed"
    /\ stats' = [stats EXCEPT !["read"] = calculate_statistics(@)]
    /\ pc' = "calculated"
    /\ UNCHANGED <<unit_vars, requested, tool, interrupted, num_pages, access_pattern, read_pct, hold_seconds, i,
                   pass, elapsed, rand_state, access_order, res, out, exit_code, fed, probe,
                   rep, hist>>

\* print_results_json(&stats, ...)
StatsPrint ==
    /\ tool = "stats" /\ pc = "calculated"
    /\ LET p == print_results_json(stats["read"])
       IN out' = [docs |-> p.docs, nodata |-> p.nodata]
    /\ pc' = "printed"
    /\ UNCHANGED <<unit_vars, requested, tool, interrupted, num_pages, access_pattern, read_pct, hold_seconds, i,
                   pass, elapsed, rand_state, access_order, stats, res, exit_code, fed,
                   probe, rep, hist>>

NextStats == StatsCalculate \/ StatsPrint

SpecStats == InitStatsPipeline /\ [][NextStats]_vars

----------------------------------------------------------------------------
(* timespec_diff_ns on arbitrary pairs of timestamps *)

\* largest tv_sec of a timestamp handed to timespec_diff_ns
MaxSec == 3

\* the timestamps tried: whole seconds up to MaxSec, with the nanosecond
\* field at its ends and next to them
Timespecs == [tv_sec : 0 .. MaxSec, tv_nsec : {0, 1, NSEC_PER_SEC - 1}]

\* the variables of the tools' main(), at rest
NoRun ==
    /\ interrupted = FALSE
    /\ num_pages = 0
    /\ access_pattern = 0
    /\ read_pct = 70
    /\ hold_seconds = 0
    /\ i = 0
    /\ pass = 0
    /\ elapsed = 0
    /\ rand_state = RandSeed
    /\ access_order = <<>>
    /\ stats = [k \in Kinds |-> EmptyStats(0)]
    /\ res = [r \in Resources |-> [acquired |-> 0, released |-> 0]]
    /\ out = NoOutput
    /\ exit_code = -1
    /\ fed = [k \in Kinds |-> <<>>]
    /\ probe = NoProbe
    /\ rep = NoReport
    /\ hist = NoHistory
    /\ requested = 0

InitClock ==
    /\ tool = "clock"
    /\ pc = "timed"
    /\ NoRun
    /\ argv = <<>>
    /\ size_mb = U64(0)
    /\ memory = <<>>
    /\ pattern_type = 0
    /\ total_size = 0
    /\ subpatterns = <<>>
    /\ start \in Timespecs
    /\ end \in Timespecs
    /\ latency = U64(0)
    /\ NoLocker

\* latency = timespec_diff_ns(&start, &end)
ClockDiff ==
    /\ tool = "clock" /\ pc = "timed"
    /\ latency' = timespec_diff_ns(start, end)
    /\ pc' = "diffed"
    /\ UNCHANGED <<tool, interrupted, num_pages, access_pattern, read_pct, hold_seconds, i,
                   pass, elapsed, rand_state, access_order, stats, res, out, exit_code, fed,
                   probe, rep, hist, requested, argv, size_mb, memory, pattern_type,
                   total_size,
                   subpatterns, start, end>>
    /\ UNCHANGED locker_vars

NextClock == ClockDiff

SpecClock == InitClock /\ [][NextClock]_vars

----------------------------------------------------------------------------
(* The pattern generators on arbitrary ranges, and the chunked fill loop of   *)
(* mem_pressure with the bytes it writes.  tool is the code under test:       *)
(*   "fill_pattern" : one call fill_pattern(buffer, total_size, pattern_type, *)
(*                    i), i the offset argument                               *)
(*   "fill_page"    : one call fill_page(page, pattern_type, i), i the page   *)
(*                    index                                                   *)
(*   "fill_loop"    : the while loop of mem_pressure's main(), i is `filled`  *)

\* largest pattern_type tried; 0 .. 3 are the documented kinds, anything else
\* takes the default branch
MaxPattern == 4
\* range lengths go up to MaxFillPages pages and one byte
MaxFillPages == 4
\* offsets go up to MaxOffsetPages pages and 255 bytes
MaxOffsetPages == 2
\* CHUNK_SIZE of the fill loop, in pages (scaled down from 16384)
FillChunkPages == 2

FillSizes == {k * PAGE_SIZE + r : k \in 0 .. MaxFillPages, r \in {0, 1}}
FillOffsets == {k * PAGE_SIZE + r : k \in 0 .. MaxOffsetPages, r \in {0, 255}}

InitFill ==
    /\ tool \in {"fill_pattern", "fill_page", "fill_loop"}
    /\ pc = "fill"
    /\ pattern_type \in 0 .. MaxPattern
    /\ total_size \in CASE tool = "fill_pattern" -> FillSizes
                      [] tool = "fill_page"    -> {PAGE_SIZE}
                      [] OTHER -> {k * PAGE_SIZE : k \in 1 .. MaxFillPages}
    /\ interrupted = FALSE
    /\ num_pages = 0
    /\ access_pattern = 0
    /\ read_pct = 70
    /\ hold_seconds = 0
    /\ i \in CASE tool = "fill_pattern" -> FillOffsets
             [] tool = "fill_page"    -> 0 .. (MaxFillPages + MaxOffsetPages)
             [] OTHER -> {0}
    /\ pass = 0
    /\ elapsed = 0
    /\ rand_state = RandSeed
    /\ access_order = <<>>
    /\ stats = [k \in Kinds |-> EmptyStats(0)]
    /\ res = [r \in Resources |-> [acquired |-> 0, released |-> 0]]
    /\ out = NoOutput
    /\ exit_code = -1
    /\ fed = [k \in Kinds |-> <<>>]
    /\ probe = NoProbe
    /\ rep = NoReport
    /\ hist = NoHistory
    /\ requested = total_size
    /\ argv = <<>>
    /\ size_mb = U64(0)
    /\ memory = <<>>
    /\ subpatterns = <<>>
    /\ start = ClockAt(0)
    /\ end = ClockAt(0)
    /\ latency = U64(0)
    /\ NoLocker

\* fill_pattern(buffer, total_size, pattern_type, i)
FillPatternCall ==
    /\ tool = "fill_pattern" /\ pc = "fill"
    /\ LET f == fill_pattern(total_size, pattern_type, i, rand_state)
       IN /\ memory' = f.bytes
          /\ rand_state' = f.state
          /\ subpatterns' = f.subs
    /\ pc' = "filled"
    /\ UNCHANGED <<tool, interrupted, num_pages, access_pattern, read_pct, hold_seconds, i,
                   pass, elapsed, access_order, stats, res, out, exit_code, fed, probe,
                   rep, hist, requested, argv, size_mb, pattern_type, total_size, start,
                   end,
                   latency>>
    /\ UNCHANGED locker_vars

\* fill_page(page, pattern_type, i)
FillPageCall ==
    /\ tool = "fill_page" /\ pc = "fill"
    /\ LET f == fill_page(pattern_type, i, rand_state)
       IN /\ memory' = f.bytes
          /\ rand_state' = f.state
          /\ subpatterns' = f.subs
    /\ pc' = "filled"
    /\ UNCHANGED <<tool, interrupted, num_pages, access_pattern, read_pct, hold_seconds, i,
                   pass, elapsed, access_order, stats, res, out, exit_code, fed, probe,
                   rep, hist, requested, argv, size_mb, pattern_type, total_size, start,
                   end,
                   latency>>
    /\ UNCHANGED locker_vars

\* a plausible bug: every chunk filled as if it were the first
FillLoopOffset_zero(filled) == 0

\* the offset argument the loop passes: fill_pattern(memory + filled, chunk,
\* pattern_type, filled)
FillLoopOffset(filled) == filled

\* while (filled < total_size && !interrupted) {
\*     chunk = (total_size - filled) > CHUNK_SIZE ? CHUNK_SIZE : (total_size - filled);
\*     fill_pattern(memory + filled, chunk, pattern_type, filled);  filled += chunk; }
FillLoop ==
    /\ tool = "fill_loop" /\ pc = "fill"
    /\ IF i < total_size /\ ~interrupted
       THEN LET chunk == Min(FillChunkPages * PAGE_SIZE, total_size - i)
                f == fill_pattern(chunk, pattern_type, FillLoopOffset(i), rand_state)
            IN /\ memory' = memory \o f.bytes
               /\ rand_state' = f.state
               /\ subpatterns' = f.subs
               /\ i' = i + chunk
               /\ UNCHANGED pc
       ELSE /\ pc' = "filled"
            /\ UNCHANGED <<memory, rand_state, subpatterns, i>>
    /\ UNCHANGED <<tool, interrupted, num_pages, access_pattern, read_pct, hold_seconds,
                   pass, elapsed, access_order, stats, res, out, exit_code, fed, probe,
                   rep, hist, requested, argv, size_mb, pattern_type, total_size, start,
                   end,
                   latency>>
    /\ UNCHANGED locker_vars

NextFill == FillPatternCall \/ FillPageCall \/ FillLoop

SpecFill == InitFill /\ [][NextFill]_vars

----------------------------------------------------------------------------
(* The access order of mem_read_bench for larger page counts: main() from the *)
(* allocation of access_order to the start of the probe loop.                 *)

\* page counts 1 .. MaxOrderPages are tried, and whole megabytes up to MaxOrderMB
MaxOrderPages == 48
MaxOrderMB == 1

\* MB_TO_BYTES(1) / PAGE_SIZE
PagesPerMB == 256

OrderPages == (1 .. MaxOrderPages) \cup {PagesPerMB * mb : mb \in 1 .. MaxOrderMB}

\* mem_read_bench after the settle check, nothing interrupted
InitOrder ==
    /\ tool = "read"
    /\ pc = "alloc_order"
    /\ interrupted = FALSE
    /\ num_pages \in OrderPages
    /\ access_pattern \in 0 .. 2
    /\ read_pct = 70
    /\ hold_seconds = 0
    /\ i = 0
    /\ pass = 0
    /\ elapsed = 0
    /\ rand_state = RandSeed
    /\ access_order = <<>>
    /\ stats = [k \in Kinds |-> IF k = "read" THEN EmptyStats(num_pages) ELSE EmptyStats(0)]
    /\ res = [r \in Resources |->
                 IF r \in {"memory", "stats"} THEN [acquired |-> 1, released |-> 0]
                 ELSE [acquired |-> 0, released |-> 0]]
    /\ out = NoOutput
    /\ exit_code = -1
    /\ fed = [k \in Kinds |-> <<>>]
    /\ probe = NoProbe
    /\ rep = NoReport
    /\ hist = NoHistory
    /\ requested = num_pages
    /\ NoUnit

NextOrder == AllocOrder

SpecOrder == InitOrder /\ [][NextOrder]_vars

----------------------------------------------------------------------------
(* The probe loops of mem_read_bench and mem_mixed_bench with the bytes of    *)
(* the region: main() from the head of the probe loop, the region as the fill *)
(* loop left it.                                                              *)

\* largest region in pages
MaxProbePages == 3
\* largest duration (ns) of a probe followed here
MaxProbeLat == 0

\* the durations recorded so far stay within MaxProbeLat
ShortProbes == \A k \in Kinds : \A j \in 1 .. Len(fed'[k]) : fed'[k][j] <= MaxProbeLat

\* the fill loops: mem_read_bench page[j] = (unsigned char)((i + j) % 256),
\* mem_mixed_bench memset(page, i % 256, PAGE_SIZE)
bench_fill_page(t, page_idx) ==
    IF t = "mixed" THEN memset(page_idx % 256, PAGE_SIZE)
    ELSE sequential_bytes(page_idx, PAGE_SIZE)

\* the region after the fill loop ran over n pages
RECURSIVE bench_fill(_, _)
bench_fill(t, n) ==
    IF n = 0 THEN <<>> ELSE bench_fill(t, n - 1) \o bench_fill_page(t, n - 1)

\* dummy += page[0]: the region after a read of byte 0 of page page_idx
read_probe(mem, page_idx) == mem

\* a plausible change: the write probe dirtying its whole page
write_probe_page(mem, page_idx, k) ==
    [p \in 1 .. Len(mem) |-> IF (p - 1) \div PAGE_SIZE = page_idx THEN k % 256 ELSE mem[p]]

\* page[0] = (char)(i % 256); madvise(page, PAGE_SIZE, MADV_PAGEOUT): the
\* region after the store (paging out keeps the contents)
write_probe(mem, page_idx, k) == [mem EXCEPT ![page_idx * PAGE_SIZE + 1] = k % 256]

\* mem_read_bench / mem_mixed_bench at the head of the probe loop, nothing interrupted
InitProbe ==
    /\ tool \in {"read", "mixed"}
    /\ pc = "probe"
    /\ interrupted = FALSE
    /\ requested \in 1 .. MaxProbePages
    /\ access_pattern \in IF tool = "read" THEN 0 .. 2 ELSE {0}
    /\ read_pct \in IF tool = "mixed" THEN {0, 50, 70, 100} ELSE {70}
    /\ hold_seconds = 0
    /\ i = 0
    /\ pass = 0
    /\ elapsed = SettleSeconds(tool)
    /\ LET b == IF tool = "read" THEN build_access_order(access_pattern, requested, RandSeed)
                ELSE [array |-> <<>>, state |-> RandSeed]
       IN /\ access_order = b.array
          /\ rand_state = b.state
          /\ num_pages = IF tool = "read" THEN Len(b.array) ELSE requested
    /\ stats = [k \in Kinds |-> IF tool = "mixed" \/ k = "read"
                                THEN EmptyStats(requested) ELSE EmptyStats(0)]
    /\ res = [r \in Resources |->
                 IF r \in (IF tool = "read" THEN {"memory", "stats", "order"}
                           ELSE {"memory", "read_stats", "write_stats"})
                 THEN [acquired |-> 1, released |-> 0]
                 ELSE [acquired |-> 0, released |-> 0]]
    /\ out = NoOutput
    /\ exit_code = -1
    /\ fed = [k \in Kinds |-> <<>>]
    /\ probe = NoProbe
    /\ rep = NoReport
    /\ hist = [NoHistory EXCEPT !.hints = requested]
    /\ argv = <<>>
    /\ size_mb = U64(0)
    /\ memory = bench_fill(tool, requested)
    /\ pattern_type = 0
    /\ total_size = requested * PAGE_SIZE
    /\ subpatterns = <<>>
    /\ start = ClockAt(0)
    /\ end = ClockAt(0)
    /\ latency = U64(0)
    /\ NoLocker

\* the loop body of mem_read_bench on the region
ProbeReadBytes ==
    /\ ProbeReadStep
    /\ ShortProbes
    /\ memory' = read_probe(memory, access_order[i + 1])
    /\ UNCHANGED <<argv, size_mb, pattern_type, total_size, subpatterns, start, end, latency>>
    /\ UNCHANGED locker_vars

\* the loop body of mem_mixed_bench on the region
ProbeMixedBytes ==
    /\ ProbeMixedStep
    /\ ShortProbes
    /\ memory' = IF probe'.op = "read"
                 THEN read_probe(memory, probe'.pages[Len(probe'.pages)])
                 ELSE write_probe(memory, probe'.pages[Len(probe'.pages)], i)
    /\ UNCHANGED <<argv, size_mb, pattern_type, total_size, subpatterns, start, end, latency>>
    /\ UNCHANGED locker_vars

NextProbe == ProbeLoop \/ ProbeReadBytes \/ ProbeMixedBytes

SpecProbe == InitProbe /\ [][NextProbe]_vars

----------------------------------------------------------------------------
(* Argument parsing: main() of each tool from its entry to the first          *)
(* allocation.  An argument is the sequence of its characters; argv holds     *)
(* argv[1] onwards, so argc = Len(argv) + 1.                                  *)

\* the <size_mb> arguments tried: empty, zero, plain, not a number, trailing
\* text, white space (a space, a vertical tab) and signs, and the values
\* around SIZE_MAX / 2^20 and 2^64
SizeArgs ==
    {
      <<>>, <<"0">>, <<"0", "0">>, <<"1">>,
      <<"1", "6">>, <<"a", "b", "c">>, <<"1", "x">>, <<" ", "1">>, <<VT, "1">>,
      <<"+", "1">>, <<"-", "1">>, <<"1", "7", "5", "9", "2", "1", "8", "6", "0", "4", "4", "4", "1", "5">>, <<"1", "7", "5", "9", "2", "1", "8", "6", "0", "4", "4", "4", "1", "6">>,
      <<"1", "8", "4", "4", "6", "7", "4", "4", "0", "7", "3", "7", "0", "9", "5", "5", "1", "6", "1", "5">>, <<"1", "8", "4", "4", "6", "7", "4", "4", "0", "7", "3", "7", "0", "9", "5", "5", "1", "6", "1", "6">>
    }

\* the mode arguments tried: in and out of the ranges 0-2, 0-3 and 0-100,
\* negative, and not a number
ModeArgs ==
    {
      <<>>, <<"0">>, <<"2">>, <<"3">>, <<"4">>, <<"7">>,
      <<"1", "0", "0">>, <<"1", "0", "1">>, <<"-", "1">>, <<"7", "x">>, <<"a", "b", "c">>,
      <<VT, "1">>
    }

\* the [hold_seconds] arguments tried
HoldArgs ==
    {
      <<"0">>, <<"1", "5">>, <<"-", "5">>
    }

\* the command lines tried: no argument, a size, a size and a mode, and a few
\* with three and four arguments
ArgVectors ==
    {<<>>}
    \cup {<<s>> : s \in SizeArgs}
    \cup {<<s, m>> : s \in SizeArgs, m \in ModeArgs}
    \cup {<<s, m, h>> : s \in {<<"0">>, <<"1", "6">>}, m \in {<<"0">>, <<"7">>}, h \in HoldArgs}
    \cup {<<<<"1", "6">>, <<"0">>, <<"1", "5">>, <<"0">>>>}

\* the value of the first argument fits a long: atol is defined on it
FitsLong(args) ==
    Len(args) = 0 \/ ~DecimalGreater(StripZeros(ScanInteger(args[1]).digits), LONG_MAX_DIGITS)

\* entry of main(), nothing converted or acquired yet
InitArgs ==
    /\ tool \in Tools
    /\ pc = "parse"
    /\ NoRun
    /\ argv \in IF tool = "pressure" THEN {args \in ArgVectors : FitsLong(args)} ELSE ArgVectors
    /\ size_mb = U64(0)
    /\ memory = <<>>
    /\ pattern_type = 0
    /\ total_size = 0
    /\ subpatterns = <<>>
    /\ start = ClockAt(0)
    /\ end = ClockAt(0)
    /\ latency = U64(0)
    /\ NoLocker

\* *endptr != '\0': the conversion stopped before the end of the argument
TrailingText(conv, arg) == conv.end # Len(arg) + 1

\* *endptr != '\0' || size_mb_ull == 0 || size_mb_ull > (SIZE_MAX / (1024 * 1024))
InvalidSize(conv, arg) ==
    \/ TrailingText(conv, arg)
    \/ conv.value = U64(0)
    \/ U64Less(SIZE_MAX_MB, conv.value)

\* *endptr != '\0' || pattern_long < 0 || pattern_long > max
InvalidMode(conv, arg, max) ==
    \/ TrailingText(conv, arg)
    \/ conv.neg
    \/ U64Less(U64(max), conv.mag)

\* the largest mode argument a benchmark takes: access pattern 0-2, pattern
\* type 0-3, read percentage 0-100
ModeMax(t) == CASE t = "read" -> 2 [] t = "write" -> 3 [] t = "mixed" -> 100

\* the mode of a benchmark run without argv[2]
ModeDefault(t) == IF t = "mixed" THEN 70 ELSE 0

\* main() of mem_read_bench, mem_write_bench and mem_mixed_bench up to the
\* signal() calls: usage check, strtoull on argv[1], strtol on argv[2], then
\* total_size = MB_TO_BYTES(size_mb) and num_pages = total_size / PAGE_SIZE
\* (both size_t, kept here at their full width)
ParseBench ==
    /\ tool \in Benchmarks /\ pc = "parse"
    /\ LET argc == Len(argv) + 1
           size == strtoull(argv[1])
           mode == strtol(argv[2])
       IN IF argc < 2 \/ argc > 3
          THEN /\ Exit(1)
               /\ UNCHANGED <<size_mb, access_pattern, pattern_type, read_pct>>
               /\ UNCHANGED <<total_size, num_pages, requested>>
          ELSE IF InvalidSize(size, argv[1])
          THEN /\ Exit(1)
               /\ UNCHANGED <<size_mb, access_pattern, pattern_type, read_pct>>
               /\ UNCHANGED <<total_size, num_pages, requested>>
          ELSE IF argc >= 3 /\ InvalidMode(mode, argv[2], ModeMax(tool))
          THEN /\ Exit(1)
               /\ size_mb' = size.value
               /\ UNCHANGED <<access_pattern, pattern_type, read_pct>>
               /\ UNCHANGED <<total_size, num_pages, requested>>
          ELSE LET m == IF argc >= 3 THEN LongValue(mode) ELSE ModeDefault(tool)
               IN /\ pc' = "mmap"
                  /\ size_mb' = size.value
                  /\ access_pattern' = IF tool = "read" THEN m ELSE access_pattern
                  /\ pattern_type' = IF tool = "write" THEN m ELSE pattern_type
                  /\ read_pct' = IF tool = "mixed" THEN m ELSE read_pct
                  /\ total_size' = MB_TO_BYTES64(size.value)
                  /\ num_pages' = U64Div(total_size', PAGE_SIZE)
                  /\ requested' = total_size'
                  /\ UNCHANGED exit_code
    /\ UNCHANGED <<tool, interrupted, hold_seconds, i, pass, elapsed, rand_state,
                   access_order, stats, res, out, fed, probe, rep, hist, argv,
                   memory, subpatterns, start, end, latency>>
    /\ UNCHANGED locker_vars

\* atol(s): strtol(s, NULL, 10), for arguments whose value fits a long
atol(s) == strtol(s)

\* atoi(s): (int)strtol(s, NULL, 10), for arguments whose value fits an int
atoi(s) == LongValue(strtol(s))

\* (size_t)v of a long v: a negative value wraps around 2^64
SizeOfLong(v) == IF v.neg THEN U64Sub(U64(0), v.mag) ELSE v.mag

\* main() of mem_pressure up to the signal() calls: usage check, atol on
\* argv[1], atoi on argv[2] and argv[3], the test size_mb == 0, then
\* total_size = MB_TO_BYTES(size_mb) (a size_t, kept here at its full width)
ParsePressure ==
    /\ tool = "pressure" /\ pc = "parse"
    /\ LET argc == Len(argv) + 1
       IN IF argc < 2 \/ argc > 4
          THEN /\ Exit(1)
               /\ UNCHANGED <<size_mb, pattern_type, hold_seconds, total_size, requested>>
          ELSE /\ size_mb' = SizeOfLong(atol(argv[1]))
               /\ pattern_type' = IF argc >= 3 THEN atoi(argv[2]) ELSE 0
               /\ hold_seconds' = IF argc >= 4 THEN atoi(argv[3]) ELSE 15
               /\ IF size_mb' = U64(0)
                  THEN /\ Exit(1)
                       /\ UNCHANGED <<total_size, requested>>
                  ELSE /\ pc' = "mmap"
                       /\ total_size' = MB_TO_BYTES64(size_mb')
                       /\ requested' = total_size'
                       /\ UNCHANGED exit_code
    /\ UNCHANGED <<tool, interrupted, num_pages, access_pattern, read_pct, i, pass, elapsed,
                   rand_state, access_order, stats, res, out, fed, probe, rep, hist,
                   argv, memory, subpatterns, start, end, latency>>
    /\ UNCHANGED locker_vars

NextArgs == ParseBench \/ ParsePressure

SpecArgs == InitArgs /\ [][NextArgs]_vars

----------------------------------------------------------------------------
(* Properties of the statistics pipeline (SpecStats) *)

Printed == tool = "stats" /\ pc = "printed"
Samples == fed["read"]
TheBlock == out.docs[1].block[1]

\* v is the element at 0-based index idx of the ascending order of samples:
\* at most idx samples are smaller, more than idx are not larger
IsRank(samples, idx, v) ==
    /\ Cardinality({j \in 1 .. Len(samples) : samples[j] < v}) <= idx
    /\ idx < Cardinality({j \in 1 .. Len(samples) : samples[j] <= v})

\* C1: for every non-empty sample sequence run through calculate_statistics
\* and read through get_percentile, the report has
\* min <= p50 <= p95 <= p99 <= max and its count is the number of samples fed in.
C1_ReportOrdered ==
    (Printed /\ Samples # <<>>) =>
        /\ Len(out.docs) = 1
        /\ TheBlock.min <= TheBlock.p50
        /\ TheBlock.p50 <= TheBlock.p95
        /\ TheBlock.p95 <= TheBlock.p99
        /\ TheBlock.p99 <= TheBlock.max
        /\ TheBlock.count = Len(Samples)

\* an unsorted input whose report separates min, p50 and p95
C1_Witness ==
    /\ Printed
    /\ Len(Samples) >= 3
    /\ Samples[1] > Samples[2]
    /\ TheBlock.min < TheBlock.p50
    /\ TheBlock.p50 < TheBlock.p95

\* C2: for p in {50, 95, 99} and n >= 1 samples, get_percentile returns the
\* element of the ascending-sorted samples at index min(floor(p*n/100), n-1)
\* (no "+1", no interpolation); min is the element at index 0, max the one at
\* index n-1.
C2_NearestRank ==
    (Printed /\ Samples # <<>>) =>
        LET n == Len(Samples)
            sorted == stats["read"].latencies
        IN /\ \A j \in 1 .. n - 1 : sorted[j] <= sorted[j + 1]
           /\ \A p \in {50, 95, 99} :
                 LET idx == Min((p * n) \div 100, n - 1)
                 IN /\ get_percentile(stats["read"], p) = sorted[idx + 1]
                    /\ IsRank(Samples, idx, get_percentile(stats["read"], p))
           /\ IsRank(Samples, (50 * n) \div 100, TheBlock.p50)
           /\ IsRank(Samples, (95 * n) \div 100, TheBlock.p95)
           /\ IsRank(Samples, (99 * n) \div 100, TheBlock.p99)
           /\ IsRank(Samples, 0, TheBlock.min)
           /\ IsRank(Samples, n - 1, TheBlock.max)

\* three samples whose ranks 1 and 2 differ, so truncating and rounding up
\* the rank of p50 give different elements
C2_Witness ==
    /\ Printed
    /\ Len(Samples) = 3
    /\ stats["read"].latencies[2] < stats["read"].latencies[3]
    /\ TheBlock.p50 = stats["read"].latencies[2]

----------------------------------------------------------------------------
(* Properties of the tools (Spec) *)

Exited == pc = "exit"
UsesKind(t, k) == t = "mixed" \/ (t \in {"read", "write"} /\ k = KindOf(t))
Balanced == \A r \in Resources : res[r].released = res[r].acquired

\* C3: with an empty sample sequence the aggregator and the report path give
\* the explicit no-data outcome: no element of the sample buffer is read and
\* nothing is divided by count or by the total duration, in all three benchmarks.
C3_EmptyNoData ==
    \A k \in Kinds :
        (tool \in Benchmarks /\ rep.ran /\ UsesKind(tool, k) /\ fed[k] = <<>>) =>
            /\ rep.reads[k] = {}
            /\ rep.divs[k] = {}
            /\ tool \in {"read", "write"} => (out.nodata /\ out.docs = <<>>)
            /\ tool = "mixed" =>
                  /\ Len(out.docs) = 1
                  /\ (k = "read" => out.docs[1].read_stats = <<>>)
                  /\ (k = "write" => out.docs[1].write_stats = <<>>)

\* the read benchmark reporting with no sample at all
C3_Witness ==
    /\ tool = "read"
    /\ rep.ran
    /\ fed["read"] = <<>>
    /\ out.nodata

\* C4 as claimed: every benchmark run that reaches Reporting writes exactly
\* one result document to stdout.
C4_Original ==
    (tool \in Benchmarks /\ rep.ran) => Len(out.docs) = 1

\* C4 as amended: a run that reaches Reporting writes at most one document,
\* after the last probe: exactly one in the mixed benchmark and in a read or
\* write run with at least one sample; a read or write run with no sample
\* writes none (only the no-data message on stderr).  Nothing is written
\* before Reporting.
C4_OneDocumentIfData ==
    tool \in Benchmarks =>
        /\ rep.ran =>
              Len(out.docs) = IF tool = "mixed" \/ fed[KindOf(tool)] # <<>> THEN 1 ELSE 0
        /\ ~rep.ran => out.docs = <<>>
        /\ out.docs # <<>> => pc \in {"cleanup", "return", "exit"}

\* a read run interrupted during Probing, reporting the samples it has
C4_Witness ==
    /\ tool = "read"
    /\ rep.ran
    /\ hist.cut = "Probing"
    /\ fed["read"] # <<>>
    /\ Len(out.docs) = 1

\* the block printed for kind k is built from the samples recorded for k
BlockFrom(k, block) ==
    IF fed[k] = <<>> THEN block = <<>>
    ELSE /\ Len(block) = 1
         /\ block[1].count = Len(fed[k])
         /\ IsRank(fed[k], 0, block[1].min)
         /\ IsRank(fed[k], Len(fed[k]) - 1, block[1].max)
         /\ \E j \in 1 .. Len(fed[k]) : block[1].p50 = fed[k][j]

\* whatever was written is built from the recorded samples, and after the flag
\* was set no probe was issued but the one whose loop test had already passed
ReportFromSamples ==
    /\ probe.n = hist.sig_n + (IF hist.sig_at = "probe_op" THEN 1 ELSE 0)
    /\ Len(out.docs) <= 1
    /\ out.docs # <<>> =>
          IF tool = "mixed"
          THEN /\ out.docs[1].total_operations = Len(fed["read"]) + Len(fed["write"])
               /\ BlockFrom("read", out.docs[1].read_stats)
               /\ BlockFrom("write", out.docs[1].write_stats)
          ELSE BlockFrom(KindOf(tool), out.docs[1].block)

SignalWhileProbing == tool \in Benchmarks /\ Exited /\ PhaseOf(hist.sig_at) = "Probing"

\* C5 as claimed: if the flag is set while the probe loop runs, the run still
\* computes statistics, emits a report built only from the samples recorded
\* before the loop stopped, and exits with code 1.
C5_Original ==
    SignalWhileProbing =>
        /\ exit_code = 1
        /\ rep.ran
        /\ Len(out.docs) = 1
        /\ ReportFromSamples

\* C5 as amended: if the flag is set while the probe loop runs, the run still
\* computes statistics and exits with code 1; the mixed benchmark, and a read
\* or write run with at least one recorded sample, emit a report built only
\* from the samples recorded before the loop stopped; a read or write run
\* with no recorded sample emits none.
C5_PartialReport ==
    SignalWhileProbing =>
        /\ exit_code = 1
        /\ rep.ran
        /\ ReportFromSamples
        /\ Len(out.docs) = 1 <=> (tool = "mixed" \/ fed[KindOf(tool)] # <<>>)

\* a write run interrupted between probes, some of them recorded
C5_Witness ==
    /\ SignalWhileProbing
    /\ tool = "write"
    /\ hist.cut = "Probing"
    /\ fed["write"] # <<>>
    /\ Len(out.docs) = 1

SetupPhases == {"Filling", "Evicting", "Settling"}

\* C6 as claimed: cancellation observed in Filling, Evicting, Settling or
\* Probing leads to Reporting before the process exits, the region still mapped.
C6_Original ==
    (tool \in Benchmarks /\ Exited /\ hist.seen_in \in SetupPhases \cup {"Probing"}) =>
        (rep.ran /\ rep.mapped)

\* C6 as amended: cancellation observed in Probing leads to Reporting before
\* the process exits, the region still mapped; cancellation observed in
\* Filling, Evicting or Settling makes the benchmark release its resources
\* and exit with code 1 without Reporting.
C6_ReportingOnlyAfterProbing ==
    (tool \in Benchmarks /\ Exited) =>
        /\ hist.seen_in = "Probing" => (rep.ran /\ rep.mapped)
        /\ hist.seen_in \in SetupPhases =>
              (~rep.ran /\ out.docs = <<>> /\ exit_code = 1 /\ Balanced)

\* the mixed benchmark, interrupted in its probe loop, has reported
C6_Witness ==
    /\ tool = "mixed"
    /\ Exited
    /\ hist.seen_in = "Probing"
    /\ hist.cut = "Probing"
    /\ rep.ran

\* C7 as claimed: the exit code is 0 exactly when the run reached natural
\* completion of all its phases, and 1 when cancellation cut any phase short,
\* the final hold delay included.  (A run in which the flag was never set and
\* which no failed allocation ended is taken as naturally complete.)
C7_Original ==
    Exited =>
        /\ (hist.cut # "none" \/ hist.fatal) => exit_code = 1
        /\ (~interrupted /\ ~hist.fatal) => exit_code = 0

\* main() returned for a failed allocation: a benchmark's mmap or malloc of a
\* sample or order buffer failed; mem_pressure's malloc of the configured size
\* and its retry with half the size both failed
SetupFailed == hist.fatal

\* C7 as amended: the exit code is 1 when a failed allocation ended the run
\* (for mem_pressure: malloc failed for the configured size and for half of
\* it) or cancellation cut Filling, Evicting (swap forcing), Settling or
\* Probing short, and 0 in every other run of mem_pressure: when its first
\* malloc failed and the retry with half the size succeeded, and when
\* cancellation cut only the final hold delay short.  A benchmark exits with
\* 0 when the flag is not set by the time main() returns, and with 1 also
\* when it is set after the last probe.
C7_ExitCode ==
    /\ Exited =>
          exit_code = IF tool \in Benchmarks
                      THEN (IF interrupted \/ SetupFailed THEN 1 ELSE 0)
                      ELSE (IF SetupFailed \/ hist.cut \in {"Filling", "Evicting"}
                            THEN 1 ELSE 0)
    /\ SetupFailed => /\ Exited /\ exit_code = 1
                      /\ tool = "pressure" => res["memory"].acquired = 0
    /\ (tool = "pressure" /\ Exited /\ res["memory"].acquired = 1 /\ hist.cut \in {"none", "Holding"})
           => exit_code = 0

\* a pressure run whose hold delay was cut short by the flag, its last reading
\* of the clock short of hold_seconds, exiting with 0
C7_Witness ==
    /\ tool = "pressure"
    /\ Exited
    /\ hist.cut = "Holding"
    /\ elapsed < hold_seconds
    /\ exit_code = 0

\* C8 as claimed: on every exit path after the region was acquired, the
\* region and each auxiliary buffer that was allocated is released exactly
\* once (never twice, never not at all).
C8_Original ==
    /\ \A r \in Resources : res[r].released <= res[r].acquired /\ res[r].acquired <= 1
    /\ (Exited /\ res["memory"].acquired = 1) => Balanced

\* C9 as claimed: when a buffer allocation fails after partial setup, all
\* that was acquired so far is released before the process exits with code 1,
\* and no statistics are output.
C9_Original ==
    (Exited /\ hist.fatal /\ res["memory"].acquired = 1) =>
        /\ Balanced
        /\ exit_code = 1
        /\ ~rep.ran
        /\ out.docs = <<>>

\* C10 as claimed: in the write benchmark and for write operations of the
\* mixed benchmark, a probe whose eviction request is refused records no
\* sample, and the run goes on with the next probe.
C10_Original ==
    (tool \in {"write", "mixed"} /\ probe.op = "write" /\ probe.refused) =>
        ~probe.recorded

----------------------------------------------------------------------------
(* Properties of timespec_diff_ns (SpecClock) *)

Diffed == tool = "clock" /\ pc = "diffed"

\* timestamp a is earlier than timestamp b
Earlier(a, b) == a.tv_sec < b.tv_sec \/ (a.tv_sec = b.tv_sec /\ a.tv_nsec < b.tv_nsec)

\* d is end - start as numbers: start + d is end, with no carry out of 64 bits
IsDifference(d, s, e) ==
    /\ U64Add(timespec_ns(s), d) = timespec_ns(e)
    /\ ~U64Less(timespec_ns(e), d)

\* C11: the duration returned is end - start in nanoseconds when end >= start,
\* and 0 when the end timestamp is earlier than the start timestamp; it never
\* wraps around to a large unsigned 64-bit value.
C11_Original ==
    Diffed =>
        /\ ~Earlier(end, start) => IsDifference(latency, start, end)
        /\ Earlier(end, start) => latency = U64(0)

----------------------------------------------------------------------------
(* Properties of the pattern generators (SpecFill) *)

Filled(t) == tool = t /\ pc = "filled"

\* the offset of the range filled: the offset argument of fill_pattern, the
\* first byte of page i for fill_page
RangeOffset == IF tool = "fill_page" THEN i * PAGE_SIZE ELSE i

\* C12: filling with kind Zero leaves every byte of the range 0, and filling
\* with kind Sequential leaves the byte at relative position p equal to
\* (offset + p) mod 256, for every range length and offset, in fill_pattern and
\* in fill_page with offset = page_index * 4096.
C12_ZeroAndSequential ==
    (Filled("fill_pattern") \/ Filled("fill_page")) =>
        /\ pattern_type \in {2, 3} => Len(memory) = total_size
        /\ pattern_type = 2 => \A p \in 0 .. (total_size - 1) : memory[p + 1] = 0
        /\ pattern_type = 3 =>
              \A p \in 0 .. (total_size - 1) : memory[p + 1] = (RangeOffset + p) % 256

\* a Sequential fill_pattern over more than a page from an offset that is not
\* a multiple of 256, so that the byte values wrap inside the range
C12_Witness ==
    /\ Filled("fill_pattern")
    /\ pattern_type = 3
    /\ total_size > PAGE_SIZE
    /\ i % 256 = 255
    /\ memory[1] = 255
    /\ memory[2] = 0

\* the bytes of the sub-chunk [at, at + len) of the range are what sub-pattern
\* number `subpattern` writes: 0 consecutive outputs of the generator (each
\* the output that follows a state ending in the byte before it), 1 one byte
\* repeated, 2 zeros, 3 the low byte of the absolute position
HasSubpattern(subpattern, at, len) ==
    CASE subpattern = 0 ->
            \A j \in 1 .. (len - 1) : memory[at + j + 1] = fast_rand(memory[at + j]).value
      [] subpattern = 1 -> \A j \in 0 .. (len - 1) : memory[at + j + 1] = memory[at + 1]
      [] subpattern = 2 -> \A j \in 0 .. (len - 1) : memory[at + j + 1] = 0
      [] OTHER -> \A j \in 0 .. (len - 1) : memory[at + j + 1] = (RangeOffset + at + j) % 256

\* C13: with kind Mixed the range is split into sub-chunks of one page, the
\* last one possibly shorter; the sub-chunk starting at byte `at` of the range
\* gets sub-pattern ((offset + at) / PAGE_SIZE) mod 4 in the order 0 Random,
\* 1 Repeated byte, 2 Zero, 3 Sequential; every byte of the range is written
\* and none outside it.
C13_MixedSubchunks ==
    ((Filled("fill_pattern") \/ Filled("fill_page")) /\ pattern_type = 0) =>
        /\ Len(memory) = total_size
        /\ Len(subpatterns) = (total_size + PAGE_SIZE - 1) \div PAGE_SIZE
        /\ \A c \in 1 .. Len(subpatterns) :
              LET sub == subpatterns[c]
              IN /\ sub.at = (c - 1) * PAGE_SIZE
                 /\ sub.len = Min(PAGE_SIZE, total_size - sub.at)
                 /\ sub.subpattern = ((RangeOffset + sub.at) \div PAGE_SIZE) % 4
                 /\ HasSubpattern(sub.subpattern, sub.at, sub.len)

\* a Mixed fill_pattern from an offset inside a page, over four pages and a
\* byte: five sub-chunks, the last one a single byte, the cycle of
\* sub-patterns back at its start
C13_Witness ==
    /\ Filled("fill_pattern")
    /\ pattern_type = 0
    /\ i % PAGE_SIZE # 0
    /\ Len(subpatterns) = 5
    /\ subpatterns[5].len = 1
    /\ subpatterns[5].subpattern = subpatterns[1].subpattern
    /\ {subpatterns[c].subpattern : c \in 1 .. 4} = 0 .. 3

\* C14: filling a range in consecutive chunks, each call given the number of
\* bytes already filled as its offset, leaves the same bytes as one
\* fill_pattern call over the whole range, for every pattern kind (the chunk
\* boundaries being multiples of the page size, as in the driver's loop).
C14_ChunkedFillSame ==
    Filled("fill_loop") =>
        memory = fill_pattern(total_size, pattern_type, 0, RandSeed).bytes

\* a Mixed range the loop filled in more than one call
C14_Witness ==
    /\ Filled("fill_loop")
    /\ pattern_type = 0
    /\ total_size > FillChunkPages * PAGE_SIZE
    /\ Len(memory) = total_size

----------------------------------------------------------------------------
(* Properties of the access order (SpecOrder, Spec) *)

\* mem_read_bench has built its access order for pattern `pattern`
OrderBuilt(pattern) ==
    tool = "read" /\ access_pattern = pattern /\ res["order"].acquired = 1

\* the probe loop is over
AfterProbing == pc \in {"report", "cleanup", "return", "exit"}

\* C15: for every page count N >= 1 the Random access order, built by filling
\* 0 .. N-1 and calling shuffle_array, is a permutation of 0 .. N-1: every
\* page index appears exactly once.
C15_RandomIsPermutation ==
    OrderBuilt(1) =>
        /\ Len(access_order) = requested
        /\ \A page \in 0 .. (requested - 1) :
              Cardinality({k \in 1 .. Len(access_order) : access_order[k] = page}) = 1

\* the order of a whole megabyte of pages, which the shuffle has changed
C15_Witness ==
    /\ OrderBuilt(1)
    /\ requested = PagesPerMB
    /\ pc = "probe"
    /\ access_order # sequential_order(requested)

\* C16: for every page count N >= 1 and stride 16 the Stride access order
\* holds exactly ceil(N / 16) page indices, each a multiple of 16, strictly
\* increasing, and the probe loop then runs over exactly that many entries.
C16_StrideOrder ==
    OrderBuilt(2) =>
        /\ (Len(access_order) - 1) * STRIDE_SIZE < requested
        /\ requested <= Len(access_order) * STRIDE_SIZE
        /\ \A k \in 1 .. Len(access_order) :
              /\ access_order[k] % STRIDE_SIZE = 0
              /\ access_order[k] < requested
              /\ k > 1 => access_order[k - 1] < access_order[k]
        /\ pc # "exit" => num_pages = Len(access_order)
        /\ probe.n <= Len(access_order)
        /\ probe.pages = SubSeq(access_order, 1, probe.n)
        /\ (AfterProbing /\ hist.cut = "none") => probe.n = Len(access_order)

\* a stride run over two whole strides and a page that probed all three entries
C16_Witness ==
    /\ OrderBuilt(2)
    /\ requested = 2 * STRIDE_SIZE + 1
    /\ Exited
    /\ exit_code = 0
    /\ probe.pages = <<0, STRIDE_SIZE, 2 * STRIDE_SIZE>>
    /\ out.docs[1].count = 3

\* C17: an uninterrupted read-benchmark run with Sequential access probes the
\* page indices 0, 1, ..., N-1 in that order, each exactly once, and the
\* reported pages_tested equals the page count N.
C17_SequentialOrder ==
    (tool = "read" /\ access_pattern = 0) =>
        /\ \A k \in 1 .. Len(probe.pages) : probe.pages[k] = k - 1
        /\ (Exited /\ ~interrupted /\ ~hist.fatal) =>
              /\ Len(probe.pages) = requested
              /\ Len(out.docs) = 1
              /\ out.docs[1].count = requested

\* an uninterrupted sequential run over several pages that has exited
C17_Witness ==
    /\ tool = "read" /\ access_pattern = 0
    /\ Exited /\ ~interrupted /\ ~hist.fatal
    /\ requested > 2
    /\ probe.pages = sequential_order(requested)
    /\ out.docs[1].count = requested

----------------------------------------------------------------------------
(* Properties of the mixed workload (Spec) *)

\* no probe so far was of kind k: none classified as k, no sample of kind k
\* stored, and no statistics block of kind k in the document
NoneOfKind(k) ==
    /\ probe.op # k
    /\ fed[k] = <<>>
    /\ stats[k].count = 0
    /\ \A d \in 1 .. Len(out.docs) :
          (IF k = "read" THEN out.docs[d].read_stats ELSE out.docs[d].write_stats) = <<>>

\* C18: in the mixed benchmark, with read_percent = 0 every probe is
\* classified as a write and the read sample sequence stays empty (no
\* read-stats block); with read_percent = 100 every probe is classified as a
\* read and the write sample sequence stays empty (no write-stats block).
C18_AllOneKind ==
    tool = "mixed" =>
        /\ read_pct = 0 => NoneOfKind("read")
        /\ read_pct = 100 => NoneOfKind("write")

\* a run with read_percent 0 that probed to the end and printed a document
\* with write statistics and no read statistics
C18_Witness ==
    /\ tool = "mixed" /\ read_pct = 0
    /\ Exited /\ exit_code = 0
    /\ probe.n = 2 * requested
    /\ probe.op = "write"
    /\ Len(out.docs) = 1
    /\ out.docs[1].write_stats # <<>>
    /\ out.docs[1].read_stats = <<>>

----------------------------------------------------------------------------
(* Properties of argument parsing (SpecArgs) *)

\* main() has left argument parsing
Parsed == tool \in Tools /\ pc # "parse"

\* arg is an integer constant: optional white space and sign, then decimal
\* digits to its end
IsInteger(arg) ==
    LET sc == ScanInteger(arg)
    IN sc.digits # <<>> /\ sc.end = Len(arg) + 1

\* the digits of an integer constant, without leading zeros
Magnitude(arg) == StripZeros(ScanInteger(arg).digits)

\* the integer constant arg is below zero
BelowZero(arg) == ScanInteger(arg).neg /\ Magnitude(arg) # <<>>

\* the integer constant arg is above the number written by digits max
Above(arg, max) == ~ScanInteger(arg).neg /\ DecimalGreater(Magnitude(arg), max)

\* SIZE_MAX / (1024 * 1024) in decimal: the largest size in MB whose byte count fits size_t
SIZE_MAX_MB_DIGITS == <<"1", "7", "5", "9", "2", "1", "8", "6", "0", "4", "4", "4", "1", "5">>

\* the size argument is missing, non-numeric, zero or overflowing
BadSize(args) ==
    \/ Len(args) = 0
    \/ ~IsInteger(args[1])
    \/ Magnitude(args[1]) = <<>>
    \/ Above(args[1], SIZE_MAX_MB_DIGITS)

\* the documented upper end of argv[2]: access pattern 2, pattern kind 3,
\* read percentage 100
ModeMaxDigits(t) ==
    CASE t = "read" -> <<"2">>
      [] t = "mixed" -> <<"1", "0", "0">>
      [] OTHER -> <<"3">>

\* a mode-specific argument is an integer outside its documented range
BadMode(t, args) ==
    \/ /\ Len(args) >= 2
       /\ IsInteger(args[2])
       /\ BelowZero(args[2]) \/ Above(args[2], ModeMaxDigits(t))
    \/ /\ t = "pressure"
       /\ Len(args) >= 3
       /\ IsInteger(args[3])
       /\ BelowZero(args[3])

\* C19 (as stated): in every tool, a size argument that is missing,
\* non-numeric, zero or overflowing, or a mode-specific argument outside its
\* documented range, makes the process exit with code 1 before any memory is
\* acquired.  mem_pressure converts with atol and atoi and tests only
\* size_mb == 0, so "16 7", "16 0 -5", "1x" and "17592186044416" all pass.
C19_Original ==
    (Parsed /\ (BadSize(argv) \/ BadMode(tool, argv)))
        => /\ pc = "exit"
           /\ exit_code = 1
           /\ \A r \in Resources : res[r].acquired = 0

----------------------------------------------------------------------------
(* Properties of the allocation of the memory region (Spec) *)

\* the run is in its Filling phase
InFilling == tool \in Tools /\ PhaseOf(pc) = "Filling"

\* the region the run holds is smaller than the configured size
Smaller == num_pages < requested

\* C20 (as stated): if the memory region of the configured size cannot be
\* obtained, the run fails fatally with a non-zero exit code; no run proceeds
\* to Filling with a region smaller than the configured size.
C20_Original ==
    /\ InFilling => ~Smaller
    /\ (tool \in Tools /\ pc = "exit" /\ (Smaller \/ res["memory"].acquired = 0))
           => exit_code # 0

\* C20 (corrected): a benchmark whose mmap fails exits with code 1 and never
\* holds a region of another size than the configured one.  mem_pressure,
\* when malloc of the configured size fails, retries once with half the size:
\* it exits with code 1 only if that fails too, and otherwise proceeds to
\* Filling with exactly half the configured size.  No run is in Filling
\* without a region, or with one of any other size.  (mem_read_bench reuses
\* num_pages for the number of probes once access_order is built.)
C20_HalfRetry ==
    /\ (tool \in Benchmarks /\ res["order"].acquired = 0) => num_pages = requested
    /\ InFilling => /\ res["memory"].acquired = 1
                    /\ \/ num_pages = requested
                       \/ tool = "pressure" /\ num_pages = requested \div 2
    /\ (tool \in Tools /\ pc = "exit" /\ res["memory"].acquired = 0)
           => exit_code = 1 /\ hist.fatal

\* mem_pressure fills a region of half the configured size after its first
\* malloc failed
C20_Witness ==
    /\ tool = "pressure"
    /\ pc = "fill"
    /\ i > 0
    /\ Smaller
    /\ num_pages = requested \div 2
    /\ res["memory"].acquired = 1

----------------------------------------------------------------------------
(* Properties of the cancellation flag (Spec) *)

\* what main() works on: its counters, buffers, resources and output
main_vars == <<num_pages, i, pass, elapsed, rand_state, access_order, stats, res, out,
               exit_code>>

\* C21: the flag is written by the signal handler alone (a step that changes
\* it leaves everything main() works on as it was, and main() where it was or
\* behind the sleep the handler ended), it is never cleared, and
\* after a delivery of SIGTERM or of SIGINT it is set and stays set up to the
\* exit of the process.
C21_FlagSetOnce ==
    [][/\ interrupted => interrupted'
       /\ interrupted' # interrupted => (UNCHANGED main_vars /\ pc' = sleep_return(pc))
       /\ hist'.signo \in {"SIGTERM", "SIGINT"} => interrupted']_vars

\* each signal has been the one that set the flag of a run that then exited
C21_Witness ==
    /\ tool \in Tools
    /\ pc = "exit"
    /\ hist.signo = "SIGINT"
    /\ hist.sig_at # "none"
    /\ interrupted

----------------------------------------------------------------------------
(* Properties of the delays (Spec) *)

\* main() is in the settling delay or in the hold delay
InDelay == tool \in Tools /\ PhaseOf(pc) \in {"Settling", "Holding"}

\* the flag was set after a test of the hold loop had found it clear and
\* before the sleep(1) that follows the test was entered
SignalBeforeSleep == hist.sig_at = "hold_call"

\* a second of a delay is slept: one more second of the settling sleep
\* passes, or a sleep(1) of the hold loop runs to its end
SleepsOn ==
    \/ pc = "settle_sleep" /\ elapsed' = elapsed + 1
    \/ pc = "hold_sleep" /\ pc' = "hold" /\ interrupted' = interrupted

\* C22 (as stated): the settling delay and the hold delay are loops of short
\* sleeps that re-check the cancellation flag between sleeps, so once the
\* flag is set no further second of the delay is slept, but for the one
\* short sleep whose check had passed when the flag was set.  The hold loop
\* of mem_pressure does so; the benchmarks call sleep(2) / sleep(1) once,
\* without looking at the flag, also when the eviction loop before it was
\* cancelled.
C22_Original ==
    [][(InDelay /\ interrupted /\ ~SignalBeforeSleep) => ~SleepsOn]_vars

----------------------------------------------------------------------------
(* Properties of the probe loop under cancellation (Spec) *)

\* the flag was set after the loop test of a probe had passed and before the
\* probe was done
SignalInsideProbe == hist.sig_at = "probe_op"

\* C23: the flag is tested before each probe.  Once it is set no further
\* probe is started: the probes issued are those issued when it was set, plus
\* at most the one whose loop test had passed already, wherever the signal
\* falls in the loop.
C23_NoProbeAfterFlag ==
    (tool \in Benchmarks /\ interrupted) =>
        /\ probe.n <= hist.sig_n + 1
        /\ probe.n = hist.sig_n + 1 => SignalInsideProbe
        /\ pc = "probe_op" => SignalInsideProbe /\ probe.n = hist.sig_n

\* a run signalled inside a probe: that probe was completed and recorded, the
\* loop stopped short of its bound, and the run has exited
C23_Witness ==
    /\ tool \in Benchmarks
    /\ pc = "exit"
    /\ SignalInsideProbe
    /\ probe.n = hist.sig_n + 1
    /\ probe.recorded
    /\ hist.sig_n > 0
    /\ probe.n < ProbeLimit(tool)

----------------------------------------------------------------------------
(* Properties of the order of the phases (Spec) *)

\* a probe has been started
ProbeStarted == tool \in Benchmarks /\ (probe.n > 0 \/ pc = "probe_op")

\* C24: in the read and the mixed benchmark no probe is started before
\* madvise(MADV_PAGEOUT) was called for every page of the region and the
\* sleep after it (2 s in mem_read_bench, 1 s in mem_mixed_bench) has run its
\* whole time.  The write benchmark has no bulk eviction and no sleep: it
\* never is in Evicting or Settling, and its probes follow a completed fill.
C24_ProbeAfterSettle ==
    /\ (ProbeStarted /\ tool \in {"read", "mixed"}) =>
           /\ hist.hints = requested
           /\ elapsed = IF tool = "read" THEN 2 ELSE 1
    /\ tool = "write" =>
           /\ PhaseOf(pc) \notin {"Evicting", "Settling"}
           /\ hist.hints = 0 /\ elapsed = 0
           /\ ProbeStarted => hist.cut # "Filling"

\* a read run probing after three eviction hints and the whole sleep
C24_Witness ==
    /\ tool = "read"
    /\ pc = "probe_op"
    /\ probe.n > 0
    /\ hist.hints = MaxPages
    /\ elapsed = 2

----------------------------------------------------------------------------
(* Properties of the probes on the region (SpecProbe) *)

\* the positions of the region whose byte a step changes
Changed == {p \in 1 .. Len(memory) : memory'[p] # memory[p]}

\* the page of the probe a step issues
ProbedPage == probe'.pages[Len(probe'.pages)]

\* C25: a probe touches one byte.  A read probe (of the read and of the mixed
\* benchmark) leaves every byte of the region as it was; a write probe of the
\* mixed benchmark changes no byte but byte 0 of the page it selected; the
\* region keeps its size.
C25_OneByteTouched ==
    [][probe'.n = probe.n + 1 =>
          /\ Len(memory') = Len(memory)
          /\ probe'.op = "read" => Changed = {}
          /\ probe'.op = "write" => Changed \subseteq {ProbedPage * PAGE_SIZE + 1}
          /\ tool = "read" => probe'.op = "read"]_vars

\* a mixed run after a write probe that changed byte 0 of a page beyond the
\* first, and nothing next to it
C25_Witness ==
    /\ tool = "mixed"
    /\ probe.op = "write"
    /\ LET page_idx == probe.pages[Len(probe.pages)]
       IN /\ page_idx > 0
          /\ memory[page_idx * PAGE_SIZE + 1] # page_idx
          /\ memory[page_idx * PAGE_SIZE + 2] = page_idx
          /\ memory[page_idx * PAGE_SIZE] = page_idx - 1

----------------------------------------------------------------------------
(* Properties of the sample buffers (Spec) *)

\* C26 (as stated): each sample sequence is sized for the probes that can be
\* routed to it, so no sample is dropped: in the mixed benchmark the read
\* count plus the write count, and the total_operations reported, equal the
\* number of probes executed.  mem_mixed_bench sizes each buffer for
\* num_pages samples and runs 2 * num_pages probes, and add_latency drops
\* what does not fit.
C26_Original ==
    tool = "mixed" =>
        /\ stats["read"].count + stats["write"].count = probe.n
        /\ out.docs # <<>> => out.docs[1].total_operations = probe.n

----------------------------------------------------------------------------
(* Properties of the throughput (SpecStats) *)

\* C27 (as stated): for every non-empty sequence of non-negative durations
\* the throughput count / (sum_ns / 1e9) is defined: whenever a statistics
\* block is printed its divisor total_ns is not zero, also when every
\* recorded duration is 0.  print_results_json guards count == 0 only, and
\* total_ns is the plain sum of the samples.
C27_Original ==
    (Printed /\ out.docs # <<>>) => stats["read"].total_ns # 0

----------------------------------------------------------------------------
(* Termination (SpecLive) *)

\* the loop counters never pass the bound of the loop they count
LoopsBounded ==
    /\ pc \in {"probe", "probe_op"} => i <= ProbeLimit(tool)
    /\ pc \in {"fill", "pass_inner"} => i <= num_pages
    /\ pc = "pass_outer" => pass <= NumPasses
    /\ pc = "pass_sleep" => pass < NumPasses
    /\ pc = "settle_sleep" => elapsed <= SettleSeconds(tool)

\* main() is in the hold loop and the flag is set
HoldCancelled == tool = "pressure" /\ PhaseOf(pc) = "Holding" /\ interrupted

\* a test of the hold loop leaves the loop if the flag is set or the clock it
\* has read is hold_seconds or more past hold_start, and goes on to sleep(1)
\* if not
HoldTest ==
    (tool = "pressure" /\ pc = "hold" /\ pc' # "hold") =>
        /\ pc' \in {"release", "hold_call"}
        /\ pc' = "release" <=> (interrupted \/ elapsed' >= hold_seconds)

\* C28: every run of the read, write and mixed benchmarks and of the pressure
\* tool eventually exits, with or without cancellation: the counters of the
\* fill, eviction and probe loops stay within the loops' bounds, and the hold
\* loop is left by the test that finds the flag set or reads the clock at
\* hold_seconds or more past hold_start, after which the run exits.
C28_EventuallyExits ==
    /\ <>(pc = "exit")
    /\ []LoopsBounded
    /\ [][HoldTest]_vars
    /\ HoldCancelled ~> (pc = "exit")

\* the pressure tool has held its memory through the longest hold, sleeping
\* and reading the clock until it read MaxHold or more, without
\* cancellation, and has exited
C28_Witness ==
    /\ tool = "pressure" /\ pc = "exit"
    /\ ~interrupted
    /\ hold_seconds = MaxHold /\ elapsed >= MaxHold

----------------------------------------------------------------------------
(* mem_locker (SpecLocker) *)

\* largest number of CHUNK_SIZE chunks a locked buffer has
MaxLockChunks == 2

\* most seconds the wait loop is followed while no signal arrives
MaxLockWait == 2

\* #define MB_TO_BYTES(mb) ((size_t)(mb) * 1024 * 1024)
MB_TO_BYTES(mb) == mb * 1024 * 1024

\* #define CHUNK_SIZE (64 * 1024 * 1024)
CHUNK_SIZE == 64 * 1024 * 1024

\* command lines of mem_locker: none, bad ones, and sizes of up to
\* MaxLockChunks chunks, on and off a chunk boundary
LockArgs ==
    {<<>>, <<<<"0">>>>, <<<<"1", "x">>>>, <<<<"1">>, <<"1">>>>, <<<<"1">>>>}
    \cup {<<<<"6", "4">>>>, <<<<"6", "5">>>>, <<<<"1", "2", "8">>>>, <<<<"1", "9", "2">>>>}

InitLocker ==
    /\ tool = "locker"
    /\ pc = "parse"
    /\ NoRun
    /\ argv \in {a \in LockArgs :
                   Len(a) = 1 =>
                       ~U64Less(U64(64 * MaxLockChunks), strtoull(a[1]).value)}
    /\ size_mb = U64(0)
    /\ memory = <<>>
    /\ pattern_type = 0
    /\ total_size = U64(0)
    /\ subpatterns = <<>>
    /\ start = ClockAt(0)
    /\ end = ClockAt(0)
    /\ latency = U64(0)
    /\ NoLocker

\* a plausible bug: cleanup() leaving the pointer as it is after free()
cleanup_dangling(mem, size, c) ==
    IF mem # NULL /\ U64Less(U64(0), size)
    THEN [locked_memory |-> mem,
          calls |-> [c EXCEPT !.munlock = @ + 1, !.free = @ + 1,
                              !.cleanup = Append(@, TRUE)]]
    ELSE [locked_memory |-> mem, calls |-> [c EXCEPT !.cleanup = Append(@, FALSE)]]

\* void cleanup(): munlock, free and locked_memory = NULL, if there is a buffer
cleanup(mem, size, c) ==
    IF mem # NULL /\ U64Less(U64(0), size)
    THEN [locked_memory |-> NULL,
          calls |-> [c EXCEPT !.munlock = @ + 1, !.free = @ + 1,
                              !.cleanup = Append(@, TRUE)]]
    ELSE [locked_memory |-> mem, calls |-> [c EXCEPT !.cleanup = Append(@, FALSE)]]

\* mem_locker's void signal_handler(int signo) { keep_running = 0; }, installed
\* by main() before it calls atexit
locker_signal_handler ==
    /\ tool = "locker"
    /\ pc \in {"malloc", "fill", "mlock", "wait", "wait_call", "wait_sleep", "shutdown",
               "atexit"}
    /\ keep_running' = 0
    /\ pc' = sleep_return(pc)
    /\ UNCHANGED <<tool, interrupted, num_pages, access_pattern, read_pct, hold_seconds, i,
                   pass, elapsed, rand_state, access_order, stats, res, out, exit_code, fed,
                   probe, rep, hist, requested, argv, size_mb, memory, pattern_type,
                   total_size, subpatterns, start, end, latency, locked_memory, calls>>

\* argc and the size argument, total_size = MB_TO_BYTES(size_mb), signal(),
\* atexit(cleanup); a bad command line returns 1 before atexit is called
LockerParse ==
    /\ tool = "locker" /\ pc = "parse"
    /\ IF Len(argv) + 1 # 2
       THEN /\ Exit(1)
            /\ UNCHANGED <<size_mb, total_size>>
       ELSE LET size == strtoull(argv[1])
            IN IF TrailingText(size, argv[1]) \/ size.value = U64(0)
                  \/ U64Less(SIZE_MAX_MB, size.value)
               THEN /\ Exit(1)
                    /\ UNCHANGED <<size_mb, total_size>>
               ELSE /\ size_mb' = size.value
                    /\ total_size' = MB_TO_BYTES64(size.value)
                    /\ pc' = "malloc"
                    /\ UNCHANGED exit_code
    /\ UNCHANGED <<tool, interrupted, num_pages, access_pattern, read_pct, hold_seconds, i, pass,
                   elapsed, rand_state, access_order, stats, res, out, fed, probe, rep, hist,
                   requested, argv, memory, pattern_type, subpatterns, start, end, latency,
                   locker_vars>>

\* locked_memory = malloc(total_size); if (locked_memory == NULL) return 1;
LockerMalloc ==
    /\ tool = "locker" /\ pc = "malloc"
    /\ \/ /\ locked_memory' = "buffer"
          /\ calls' = [calls EXCEPT !.malloc = @ + 1]
          /\ i' = U64(0)
          /\ pc' = "fill"
          /\ UNCHANGED exit_code
       \/ /\ exit_code' = 1
          /\ pc' = "atexit"
          /\ UNCHANGED <<locked_memory, calls, i>>
    /\ UNCHANGED <<tool, interrupted, num_pages, access_pattern, read_pct, hold_seconds, pass,
                   elapsed, rand_state, access_order, stats, res, out, fed, probe, rep, hist,
                   requested, argv, size_mb, memory, pattern_type, total_size, subpatterns,
                   start, end, latency, keep_running>>

\* while (filled < total_size) { memset(ptr + filled, 0xAA, chunk); filled += chunk; }
\* (i is `filled`, a size_t as total_size is)
LockerFill ==
    /\ tool = "locker" /\ pc = "fill"
    /\ IF U64Less(i, total_size)
       THEN LET left  == U64Sub(total_size, i)
                chunk == IF U64Less(U64(CHUNK_SIZE), left) THEN U64(CHUNK_SIZE) ELSE left
            IN /\ i' = U64Add(i, chunk)
               /\ UNCHANGED pc
       ELSE /\ pc' = "mlock"
            /\ UNCHANGED i
    /\ UNCHANGED <<tool, interrupted, num_pages, access_pattern, read_pct, hold_seconds, pass,
                   elapsed, rand_state, access_order, stats, res, out, exit_code, fed, probe,
                   rep, hist, requested, argv, size_mb, memory, pattern_type, total_size,
                   subpatterns, start, end, latency, locker_vars>>

\* mlock(locked_memory, total_size): main() goes on whether it succeeds or not
LockerMlock ==
    /\ tool = "locker" /\ pc = "mlock"
    /\ \E result \in {0, -1} :
          calls' = [calls EXCEPT !.mlock = @ + 1, !.locked = (result = 0)]
    /\ elapsed' = 0
    /\ pc' = "wait"
    /\ UNCHANGED <<tool, interrupted, num_pages, access_pattern, read_pct, hold_seconds, i, pass,
                   rand_state, access_order, stats, res, out, exit_code, fed, probe, rep, hist,
                   requested, argv, size_mb, memory, pattern_type, total_size, subpatterns,
                   start, end, latency, keep_running, locked_memory>>

\* the test of while (keep_running) { sleep(1); }: passed, sleep(1) is the
\* next call of main(); failed, the loop is left.  The loop is followed for
\* MaxLockWait seconds at most while no signal arrives.
LockerWait ==
    /\ tool = "locker" /\ pc = "wait"
    /\ IF keep_running # 0
       THEN /\ elapsed < MaxLockWait
            /\ pc' = "wait_call"
       ELSE /\ pc' = "shutdown"
    /\ UNCHANGED <<tool, interrupted, num_pages, access_pattern, read_pct, hold_seconds, i, pass,
                   elapsed, rand_state, access_order, stats, res, out, exit_code, fed, probe, rep,
                   hist, requested, argv, size_mb, memory, pattern_type, total_size, subpatterns,
                   start, end, latency, locker_vars>>

\* sleep(1) of the wait loop is entered, whatever keep_running has become
\* since the test
LockerSleep ==
    /\ tool = "locker" /\ pc = "wait_call"
    /\ pc' = "wait_sleep"
    /\ UNCHANGED <<tool, interrupted, num_pages, access_pattern, read_pct, hold_seconds, i, pass,
                   elapsed, rand_state, access_order, stats, res, out, exit_code, fed, probe, rep,
                   hist, requested, argv, size_mb, memory, pattern_type, total_size, subpatterns,
                   start, end, latency, locker_vars>>

\* sleep(1) returns after its second (the signal handler ends the call before
\* that): one more call has run to its end; the loop test is next
LockerWake ==
    /\ tool = "locker" /\ pc = "wait_sleep"
    /\ elapsed' = elapsed + 1
    /\ pc' = "wait"
    /\ UNCHANGED <<tool, interrupted, num_pages, access_pattern, read_pct, hold_seconds, i, pass,
                   rand_state, access_order, stats, res, out, exit_code, fed, probe, rep, hist,
                   requested, argv, size_mb, memory, pattern_type, total_size, subpatterns,
                   start, end, latency, locker_vars>>

\* cleanup(); return 0;  after the wait loop
LockerShutdown ==
    /\ tool = "locker" /\ pc = "shutdown"
    /\ LET c == cleanup(locked_memory, total_size, calls)
       IN /\ locked_memory' = c.locked_memory
          /\ calls' = c.calls
    /\ exit_code' = 0
    /\ pc' = "atexit"
    /\ UNCHANGED <<tool, interrupted, num_pages, access_pattern, read_pct, hold_seconds, i, pass,
                   elapsed, rand_state, access_order, stats, res, out, fed, probe, rep, hist,
                   requested, argv, size_mb, memory, pattern_type, total_size, subpatterns,
                   start, end, latency, keep_running>>

\* the return from main() runs what atexit registered: cleanup() once more
LockerAtexit ==
    /\ tool = "locker" /\ pc = "atexit"
    /\ LET c == cleanup(locked_memory, total_size, calls)
       IN /\ locked_memory' = c.locked_memory
          /\ calls' = c.calls
    /\ pc' = "exit"
    /\ UNCHANGED <<tool, interrupted, num_pages, access_pattern, read_pct, hold_seconds, i, pass,
                   elapsed, rand_state, access_order, stats, res, out, exit_code, fed, probe,
                   rep, hist, requested, argv, size_mb, memory, pattern_type, total_size,
                   subpatterns, start, end, latency, keep_running>>

NextLocker ==
    \/ locker_signal_handler
    \/ LockerParse
    \/ LockerMalloc
    \/ LockerFill
    \/ LockerMlock
    \/ LockerWait
    \/ LockerSleep
    \/ LockerWake
    \/ LockerShutdown
    \/ LockerAtexit

SpecLocker == InitLocker /\ [][NextLocker]_vars

----------------------------------------------------------------------------
(* Properties of mem_locker's release (SpecLocker) *)

\* cleanup() was invoked explicitly after the wait loop and again at exit
BothInvocations == tool = "locker" /\ pc = "exit" /\ Len(calls.cleanup) = 2

\* C29: in mem_locker the release is idempotent: when cleanup() has been
\* invoked explicitly after the wait loop and again through atexit, munlock
\* and free have been executed exactly once on the buffer, by the first
\* invocation, and the second one released nothing; at no point has either
\* been executed more than once.
C29_ReleasedOnce ==
    /\ calls.munlock <= 1 /\ calls.free <= 1
    /\ calls.munlock = calls.free
    /\ BothInvocations =>
          /\ calls.cleanup = <<TRUE, FALSE>>
          /\ calls.munlock = 1 /\ calls.free = 1
          /\ locked_memory = NULL

\* a buffer of two chunks was locked, a signal ended the wait loop, and both
\* invocations of cleanup() have run
C29_Witness ==
    /\ BothInvocations
    /\ keep_running = 0
    /\ calls.malloc = 1 /\ calls.mlock = 1 /\ calls.locked
    /\ total_size = U64(2 * CHUNK_SIZE)

----------------------------------------------------------------------------
(* Properties of the sample buffers (Spec) *)

\* C30: in all three benchmarks, in every reachable state a sequence holds at
\* most as many samples as elements were allocated for it, and its count is
\* the number of samples stored: nothing is stored past the end of the buffer,
\* also with the Stride pattern (probe count reduced after the buffer was
\* sized) and in the write benchmark (refused probes are skipped).
C30_SamplesWithinBuffer ==
    tool \in Benchmarks =>
        \A k \in Kinds :
            /\ stats[k].count <= stats[k].capacity
            /\ Len(stats[k].latencies) = stats[k].count

\* a Stride run of mem_read_bench has probed every stride: the buffer was
\* sized for all pages, the samples are fewer
C30_Witness ==
    /\ tool = "read" /\ access_pattern = 2
    /\ pc = "report"
    /\ num_pages < requested
    /\ stats["read"].capacity = requested
    /\ stats["read"].count = num_pages
    /\ stats["read"].count > 1

----------------------------------------------------------------------------
(* The byte stream of fast_rand (SpecRand) *)

\* most bytes drawn in a row: two periods and a few more
MaxDraws == 520

\* generator states the stream is started from: the seed, states with the
\* seed's low byte and other high bits, and the ends of the range
RandStates == {RandSeed, RandSeed + 256, RandSeed + 65536 * 3, RandSeed % 256, 0, 2147483647}

InitRand ==
    /\ tool = "fast_rand"
    /\ pc = "draw"
    /\ interrupted = FALSE
    /\ num_pages = 0
    /\ access_pattern = 0
    /\ read_pct = 70
    /\ hold_seconds = 0
    /\ i = 0
    /\ pass = 0
    /\ elapsed = 0
    /\ rand_state \in RandStates
    /\ access_order = <<>>
    /\ stats = [k \in Kinds |-> EmptyStats(0)]
    /\ res = [r \in Resources |-> [acquired |-> 0, released |-> 0]]
    /\ out = NoOutput
    /\ exit_code = -1
    /\ fed = [k \in Kinds |-> <<>>]
    /\ probe = NoProbe
    /\ rep = NoReport
    /\ hist = NoHistory
    /\ requested = 0
    /\ NoUnit

\* buffer[i] = fast_rand();  one more byte of a Random-pattern range
\* (memory is the range so far, i the bytes drawn)
RandDraw ==
    /\ tool = "fast_rand" /\ pc = "draw"
    /\ i < MaxDraws
    /\ LET r == fast_rand(rand_state)
       IN /\ memory' = Append(memory, r.value)
          /\ rand_state' = r.state
    /\ i' = i + 1
    /\ UNCHANGED <<tool, pc, interrupted, num_pages, access_pattern, read_pct, hold_seconds, pass,
                   elapsed, access_order, stats, res, out, exit_code, fed, probe, rep, hist,
                   requested, argv, size_mb, pattern_type, total_size, subpatterns, start, end,
                   latency, locker_vars>>

NextRand == RandDraw

SpecRand == InitRand /\ [][NextRand]_vars

\* the byte that follows byte b in the stream, as the low 8 bits alone give it
NextByte(b) == (b * (1103515245 % 256) + (12345 % 256)) % 256

\* C31: the byte stream of fast_rand depends only on the low 8 bits of the
\* state (every byte is the low byte of the state, and determines the next
\* byte) and has period 256: the (k+256)-th byte is the k-th byte, and the 256
\* bytes of a period are all different, so a Random-pattern page is one
\* 256-byte block repeated.
C31_Period256 ==
    tool = "fast_rand" =>
        /\ memory # <<>> => memory[Len(memory)] = rand_state % 256
        /\ \A k \in 1 .. (Len(memory) - 1) : memory[k + 1] = NextByte(memory[k])
        /\ \A k \in 1 .. (Len(memory) - 256) : memory[k + 256] = memory[k]
        /\ \A k \in 1 .. Len(memory) : \A j \in 1 .. (k - 1) :
               memory[j] = memory[k] => (k - j) % 256 = 0

\* two whole periods were drawn from the seed 12345
C31_Witness ==
    /\ tool = "fast_rand"
    /\ Len(memory) = 2 * 256
    /\ memory = fast_rand_bytes(RandSeed, 2 * 256).bytes
    /\ rand_state = fast_rand_bytes(RandSeed, 2 * 256).state

----------------------------------------------------------------------------
(* The draws of the mixed benchmark at the page counts main() computes       *)
(* (SpecDraw): num_pages = MB_TO_BYTES(size_mb) / PAGE_SIZE, the two draws of *)
(* every probe, nothing timed and no byte touched.                            *)

\* largest <size_mb> the draws are followed for
MaxDrawMB == 1

\* the read percentages tried: the ends, the smallest ones and the default
DrawPercents == {0, 1, 2, 3, 50, 70, 100}

\* probe here also keeps `drawn`, the 0..99 draw of every probe in order
InitDraw ==
    /\ tool = "mixed"
    /\ pc = "draw"
    /\ interrupted = FALSE
    /\ \E mb \in 1 .. MaxDrawMB :
          /\ num_pages = MB_TO_BYTES(mb) \div PAGE_SIZE
          /\ requested = num_pages
    /\ access_pattern = 0
    /\ read_pct \in DrawPercents
    /\ hold_seconds = 0
    /\ i = 0
    /\ pass = 0
    /\ elapsed = 0
    /\ rand_state = RandSeed
    /\ access_order = <<>>
    /\ stats = [k \in Kinds |-> EmptyStats(0)]
    /\ res = [r \in Resources |-> [acquired |-> 0, released |-> 0]]
    /\ out = NoOutput
    /\ exit_code = -1
    /\ fed = [k \in Kinds |-> <<>>]
    /\ probe = [n |-> 0, pages |-> <<>>, op |-> "none", refused |-> FALSE,
                recorded |-> FALSE, drawn |-> <<>>]
    /\ rep = NoReport
    /\ hist = NoHistory
    /\ NoUnit

\* one iteration of the probe loop, as far as the generator goes:
\* page_idx = fast_rand_range(num_pages); is_read = fast_rand_range(100) < read_pct
DrawProbe ==
    /\ tool = "mixed" /\ pc = "draw"
    /\ i < ProbeLimit(tool)
    /\ LET pg == fast_rand_range(rand_state, num_pages)
           rw == fast_rand_range(pg.state, 100)
       IN /\ rand_state' = rw.state
          /\ probe' = [n |-> probe.n + 1,
                       pages |-> Append(probe.pages, pg.value),
                       op |-> IF is_read(rw.value, read_pct) THEN "read" ELSE "write",
                       refused |-> FALSE, recorded |-> FALSE,
                       drawn |-> Append(probe.drawn, rw.value)]
    /\ i' = i + 1
    /\ UNCHANGED <<unit_vars, requested, tool, pc, interrupted, num_pages, access_pattern,
                   read_pct, hold_seconds, pass, elapsed, access_order, stats, res, out,
                   exit_code, fed, rep, hist>>

NextDraw == DrawProbe

SpecDraw == InitDraw /\ [][NextDraw]_vars

\* C32: in the mixed benchmark the generator state changes parity with every
\* draw, starting from the odd seed: between two probes it is odd, every
\* page index drawn is even, every read/write draw is odd, and with
\* read_percent = 1 no probe is a read.
C32_ParityAlternates ==
    (tool = "mixed" /\ pc = "draw") =>
        /\ rand_state % 2 = 1
        /\ \A k \in 1 .. Len(probe.pages) : probe.pages[k] % 2 = 0
        /\ \A k \in 1 .. Len(probe.drawn) : probe.drawn[k] % 2 = 1
        /\ read_pct = 1 => probe.op # "read"

\* a whole run of 1 MB with read_percent = 1: 512 probes, the last one a write
C32_Witness ==
    /\ tool = "mixed" /\ pc = "draw"
    /\ read_pct = 1
    /\ num_pages = PagesPerMB
    /\ probe.n = 2 * num_pages
    /\ probe.op = "write"

----------------------------------------------------------------------------
(* The Repeated sub-pattern of the two generators (SpecFill) *)

\* the Mixed kind: case 0 and the default branch
MixedKind == ~(pattern_type \in 1 .. 3)

\* the bytes at relative positions at .. at + len - 1 of the range
Slice(at, len) == SubSeq(memory, at + 1, at + len)

\* C33: fill_pattern's Mixed kind, called with a page-aligned offset as the
\* pressure driver's loop always does, fills every Repeated-byte sub-chunk
\* with 0, the bytes a Zero sub-chunk of that length has; fill_page fills a
\* Repeated-byte page with page_index mod 256, which is not 0 there, so the
\* two generators leave different bytes on such a page.
C33_RepeatedIsZero ==
    /\ tool = "fill_loop" => FillLoopOffset(i) % PAGE_SIZE = 0
    /\ (Filled("fill_pattern") /\ MixedKind /\ i % PAGE_SIZE = 0) =>
          \A c \in 1 .. Len(subpatterns) :
              subpatterns[c].subpattern = 1 =>
                  Slice(subpatterns[c].at, subpatterns[c].len)
                      = memset(0, subpatterns[c].len)
    /\ (Filled("fill_loop") /\ MixedKind) =>
          \A page \in 0 .. ((total_size \div PAGE_SIZE) - 1) :
              page % 4 = 1 => Slice(page * PAGE_SIZE, PAGE_SIZE) = memset(0, PAGE_SIZE)
    /\ (Filled("fill_page") /\ MixedKind /\ i % 4 = 1) =>
          /\ memory = memset(i % 256, PAGE_SIZE)
          /\ i % 256 # 0
          /\ memory # fill_pattern(PAGE_SIZE, pattern_type, i * PAGE_SIZE, RandSeed).bytes

\* a Mixed fill_pattern from the start of page 1 over more than four pages:
\* its first and fifth sub-chunks are Repeated-byte ones and hold zeros
C33_Witness ==
    /\ Filled("fill_pattern")
    /\ pattern_type = 0
    /\ i = PAGE_SIZE
    /\ Len(subpatterns) = 5
    /\ subpatterns[1].subpattern = 1 /\ subpatterns[5].subpattern = 1
    /\ memory[1] = 0 /\ memory[PAGE_SIZE] = 0 /\ memory[total_size] = 0

====
